---- MODULE Spec2Model ----
(***************************************************************************)
(* State-machine model of two cores of micropython-lib:                    *)
(*   - the USB mass-storage Bulk-Only Transport and its SCSI dispatcher     *)
(*     (micropython/usbd/msc.py), and                                       *)
(*   - the LoRa modem state core (micropython/lora/lora/lora/modem.py).     *)
(* The two cores share no state; each has its own specification.           *)
(* Library semantics are those of MicroPython (ustruct.pack zero-fills     *)
(* missing arguments and keeps the low bits of a value that does not fit,  *)
(* ustruct.unpack accepts a longer buffer, bool is not an int).            *)
(***************************************************************************)
EXTENDS Integers, Sequences, FiniteSets, TLC

\* Python's None, for fields that hold None or a number.
None == 0 - 1

Min(a, b) == IF a < b THEN a ELSE b
Max(a, b) == IF a > b THEN a ELSE b

(***************************************************************************)
(* PART 1: USB mass storage (msc.py)                                       *)
(***************************************************************************)

\* ---- constants of msc.py
MSC_STAGE_CMD == 0
MSC_STAGE_DATA == 1
MSC_STAGE_STATUS == 2
MSC_STAGE_STATUS_SENT == 3
MSC_STAGE_NEED_RESET == 4
CBW_SIGNATURE == 1128420181
CSW_SIGNATURE == 1396855637
STATUS_PASSED == 0
STATUS_FAILED == 1
STATUS_PHASE_ERROR == 2
NO_SENSE == 0
MEDIUM_NOT_PRESENT == 1
INVALID_COMMAND == 2
block_size == 512
CbwLen == 31

\* ---- bounds of the model
\* number of control requests that re-arm the transport (a class-specific
\* Reset, or a request addressed to the bulk OUT endpoint) the host issues
\* in one run
MaxResets == 1
\* largest READ_10 memory budget (max_size, in blocks) the allocator yields
MaxBudget == 2

\* ---- Python integers
\* msc.py computes with Python's unbounded integers, TLC's integers are
\* 32-bit.  A signature, a tag, a length or a block address v is held as
\* the pair <<v \div 65536, v % 65536>> (floor division, so
\* that the second component lies in 0..65535), which is exact below 2^47.
PyInt(n) == <<n \div 65536, n % 65536>>

\* a + b
PyAdd(a, b) ==
    LET l == a[2] + b[2] IN <<a[1] + b[1] + (l \div 65536), l % 65536>>

\* a - b
PySub(a, b) ==
    LET l == a[2] - b[2] IN <<a[1] - b[1] + (l \div 65536), l % 65536>>

\* a * k, for a factor k of at most 2^15
PyMul(a, k) ==
    LET l == a[2] * k IN <<a[1] * k + (l \div 65536), l % 65536>>

\* a < b
PyLess(a, b) == a[1] < b[1] \/ (a[1] = b[1] /\ a[2] < b[2])

\* the value of a pair that lies between -2^31 and 2^31
PyVal(a) == a[1] * 65536 + a[2]

\* ---- byte codecs (ustruct "<L", ">L", ">H")
\* ustruct.pack("<L", v): the low 32 bits of v
LE32(v) == <<v[2] % 256, v[2] \div 256, v[1] % 256, (v[1] \div 256) % 256>>

\* a length of 2^31 bytes or more: no buffer of that size can be allocated
Huge(v) == v[1] >= 32768

\* ustruct.unpack("<L", ...)
UnLE32(b, i) == <<b[i + 2] + 256 * b[i + 3], b[i] + 256 * b[i + 1]>>

BE32(n) ==
    <<(n \div 16777216) % 256, (n \div 65536) % 256, (n \div 256) % 256, n % 256>>

\* ustruct.unpack(">L", ...) as a Python integer
UnBE32(b, i) == <<256 * b[i] + b[i + 1], 256 * b[i + 2] + b[i + 3]>>

BE16(n) == <<(n \div 256) % 256, n % 256>>

UnBE16(b, i) == 256 * b[i] + b[i + 1]

Zeros(n) == [i \in 1..n |-> 0]

\* bytes/bytearray slice b[lo:hi] (0-based, end exclusive, clamped like Python)
Slice(b, lo, hi) ==
    LET l == Min(lo, Len(b))
        h == Min(hi, Len(b))
    IN  IF h <= l THEN <<>> ELSE [i \in 1..(h - l) |-> b[l + i]]

\* CBW.__bytes__: ustruct.pack("<LLLBBB16s", ...)
CBW_bytes(c) ==
    LE32(c.dCBWSignature) \o LE32(c.dCBWTag) \o LE32(c.dCBWDataTransferLength)
      \o <<c.bmCBWFlags % 256, c.bCBWLUN % 256, c.bCBWCBLength % 256>>
      \o [i \in 1..16 |-> IF i <= Len(c.CBWCB) THEN c.CBWCB[i] ELSE 0]

\* CBW.from_binary: ustruct.unpack("<LLLBBB16s", binary)
CBW_from_binary(b) ==
    [dCBWSignature |-> UnLE32(b, 1),
     dCBWTag |-> UnLE32(b, 5),
     dCBWDataTransferLength |-> UnLE32(b, 9),
     bmCBWFlags |-> b[13],
     bCBWLUN |-> b[14],
     bCBWCBLength |-> b[15],
     CBWCB |-> [i \in 1..16 |-> b[15 + i]]]

\* CBW(): the default-constructed wrapper
CBW_init ==
    [dCBWSignature |-> PyInt(0), dCBWTag |-> PyInt(0),
     dCBWDataTransferLength |-> PyInt(0),
     bmCBWFlags |-> 0, bCBWLUN |-> 0, bCBWCBLength |-> 0, CBWCB |-> Zeros(16)]

\* CSW(): the default-constructed wrapper (dCSWTag is None, held as -1,
\* which no tag is)
CSW_init ==
    [dCSWTag |-> PyInt(None), dCSWDataResidue |-> PyInt(0), bCSWStatus |-> 0]

\* CSW.__bytes__: ustruct.pack("<LLLB", ...); packing the tag None raises
CSW_bytes(c) ==
    IF c.dCSWTag = PyInt(None)
    THEN <<"TypeError">>
    ELSE LE32(PyInt(CSW_SIGNATURE)) \o LE32(c.dCSWTag) \o LE32(c.dCSWDataResidue)
           \o <<c.bCSWStatus % 256>>

\* what the host decodes from a 13-byte CSW frame
CSW_decode(b) ==
    [dCSWSignature |-> UnLE32(b, 1), dCSWTag |-> UnLE32(b, 5),
     dCSWDataResidue |-> UnLE32(b, 9), bCSWStatus |-> b[13]]


\* ---- the backing store (StorageDevice.filesystem)
\* "None": no medium; "bytes": a byte image of ImageBlocks blocks;
\* "blockdev": a block-oriented backend (has readblocks/ioctl)
Filesystems == {"None", "bytes", "blockdev"}

\* size of the byte image, in blocks of block_size bytes
ImageBlocks == 2
ImageBytes == ImageBlocks * block_size

\* block count the block backend reports through ioctl(4)
DevBlocks == 4

\* StorageDevice.long_operation == {} (an empty dict is falsy)
NoLongOp == [active |-> FALSE, remaining_length |-> 0, current_lba |-> PyInt(0)]

\* self.data before any response: an empty bytearray.  A buffer is `resp'
\* response bytes of `body' followed by `pad' zero bytes.
NoData == [body |-> <<"none">>, resp |-> 0, pad |-> 0]

DataLen(d) == d.resp + d.pad

\* self.data[xferred_bytes:] when longer than xferred_bytes, else bytearray()
DataAfter(d, x) ==
    IF DataLen(d) > x
    THEN [body |-> d.body,
          resp |-> Max(d.resp - x, 0),
          pad |-> d.pad - Max(x - d.resp, 0)]
    ELSE NoData

\* StorageDevice.scsi_commands: the opcodes known by name
scsi_commands == {0, 3, 18, 21, 26, 27, 30, 37, 35, 40, 42, 90}

\* the opcodes of scsi_commands that have a "handler"
scsi_handlers == {0, 3, 18, 26, 37, 35, 40, 90}

\* StorageDevice.sense_values: (key, code, qualifier) per sense state
sense_values(sense) ==
    CASE sense = NO_SENSE -> <<0, 0, 0>>
      [] sense = MEDIUM_NOT_PRESENT -> <<2, 58, 0>>
      [] sense = INVALID_COMMAND -> <<5, 32, 0>>

\* a handler's result: res is "None" (returned None), "data" (returned
\* `len' bytes described by `body') or "raise" (raised an exception)
Ret(s, res, body, len) == [s |-> s, res |-> res, body |-> body, len |-> len]

\* StorageDevice.reset
storage_reset(s) == [s EXCEPT !.sense_key = "None"]

\* validate_cmd that accepts every opcode known by name
validate_cmd_by_name(s, cmd) ==
    IF cmd[1] \notin scsi_commands
    THEN [ok |-> FALSE, s |-> [s EXCEPT !.sense = INVALID_COMMAND]]
    ELSE IF cmd[1] # 3
    THEN [ok |-> TRUE, s |-> [s EXCEPT !.sense = NO_SENSE]]
    ELSE [ok |-> TRUE, s |-> s]

\* StorageDevice.validate_cmd: <<valid, state>>
validate_cmd(s, cmd) ==
    IF cmd[1] \notin scsi_commands
    THEN [ok |-> FALSE, s |-> [s EXCEPT !.sense = INVALID_COMMAND]]
    ELSE IF cmd[1] \notin scsi_handlers
    THEN [ok |-> FALSE, s |-> [s EXCEPT !.sense = INVALID_COMMAND]]
    ELSE IF cmd[1] # 3
    THEN [ok |-> TRUE, s |-> [s EXCEPT !.sense = NO_SENSE]]
    ELSE [ok |-> TRUE, s |-> s]

handle_mode_sense6(s, cmd) == Ret(s, "data", <<"mode_sense6", 3, 0, 128, 0>>, 4)

handle_mode_sense10(s, cmd) == Ret(s, "data", <<"mode_sense10", 6, 0, 128, 0>>, 8)

\* handle_test_unit_ready that fails without recording the sense
handle_test_unit_ready_no_sense(s, cmd) ==
    IF s.filesystem # "None"
    THEN Ret([s EXCEPT !.sense = NO_SENSE], "None", <<"none">>, 0)
    ELSE Ret(s, "raise", <<"none">>, 0)

handle_test_unit_ready(s, cmd) ==
    IF s.filesystem # "None"
    THEN Ret([s EXCEPT !.sense = NO_SENSE], "None", <<"none">>, 0)
    ELSE Ret([s EXCEPT !.sense = MEDIUM_NOT_PRESENT], "raise", <<"none">>, 0)

handle_read_capacity_10(s, cmd) ==
    IF s.filesystem = "None"
    THEN Ret([s EXCEPT !.sense = MEDIUM_NOT_PRESENT], "raise", <<"none">>, 0)
    ELSE IF s.filesystem = "blockdev"
    THEN Ret(s, "data", <<"capacity", DevBlocks - 1, block_size>>, 8)
    ELSE Ret(s, "data", <<"capacity", (ImageBytes \div block_size) - 1, block_size>>, 8)

handle_read_format_capacity(s, cmd) ==
    IF s.filesystem = "None"
    THEN Ret(s, "data", <<"format_capacity", 0, 3, block_size>>, 12)
    ELSE IF s.filesystem = "blockdev"
    THEN Ret(s, "data", <<"format_capacity", DevBlocks, 2, block_size>>, 12)
    ELSE Ret(s, "data", <<"format_capacity", ImageBytes \div block_size, 2, block_size>>, 12)

\* handle_request_sense that reports the sense state and then clears it
handle_request_sense_clears(s, cmd) ==
    IF s.sense = None
    THEN Ret(s, "raise", <<"none">>, 0)
    ELSE Ret([s EXCEPT !.sense = NO_SENSE], "data",
             <<"sense">> \o sense_values(s.sense), 18)

\* StorageDevice.handle_request_sense: 18 bytes carrying the KCQ triple;
\* sense_values[None] is a KeyError
handle_request_sense(s, cmd) ==
    IF s.sense = None
    THEN Ret(s, "raise", <<"none">>, 0)
    ELSE Ret(s, "data", <<"sense">> \o sense_values(s.sense), 18)

\* StorageDevice.handle_inquiry: unpack(">BBBBB") needs five bytes
handle_inquiry(s, cmd) ==
    IF Len(cmd) < 5
    THEN Ret(s, "raise", <<"none">>, 0)
    ELSE IF cmd[2] = 0
    THEN Ret(s, "data", <<"inquiry">>, 36)
    ELSE IF cmd[3] = 128
    THEN Ret(s, "data", <<"inquiry_serial">>, 14)
    ELSE Ret([s EXCEPT !.sense = INVALID_COMMAND], "raise", <<"none">>, 0)

\* the block-backend branch of handle_read10; max_size is
\* int((gc.mem_free() / block_size) / 10) or 1
read10_blocks(s, lba, length, max_size) ==
    IF length > max_size
    THEN Ret([s EXCEPT !.long_operation =
                  [active |-> TRUE,
                   remaining_length |-> length - max_size,
                   current_lba |-> PyAdd(lba, PyInt(max_size))]],
             "data", <<"blocks", lba, max_size>>, max_size * block_size)
    ELSE Ret([s EXCEPT !.long_operation = NoLongOp],
             "data", <<"blocks", lba, length>>, length * block_size)

\* the part of handle_read10 that follows the choice of lba and length:
\* a block backend reads blocks, None[...] raises, a byte image is sliced
\* (a slice clamps its bounds to the length of the image)
read10_from(s, lba, length, max_size) ==
    IF s.filesystem = "blockdev"
    THEN read10_blocks(s, lba, length, max_size)
    ELSE IF s.filesystem = "None"
    THEN Ret(s, "raise", <<"none">>, 0)
    ELSE LET start == PyMul(lba, block_size)
             stop == PyAdd(start, PyInt(length * block_size))
             lo == IF PyLess(start, PyInt(ImageBytes)) THEN PyVal(start) ELSE ImageBytes
             hi == IF PyLess(stop, PyInt(ImageBytes)) THEN PyVal(stop) ELSE ImageBytes
         IN  Ret(s, "data", <<"image", lo, Max(hi - lo, 0)>>, Max(hi - lo, 0))

\* StorageDevice.handle_read10(cmd): unpack(">BBLBHB") needs ten bytes
handle_read10(s, cmd, max_size) ==
    IF Len(cmd) < 10
    THEN Ret(s, "raise", <<"none">>, 0)
    ELSE read10_from(s, UnBE32(cmd, 3), UnBE16(cmd, 8), max_size)

\* StorageDevice.handle_read10(None): the long-operation continuation;
\* without a long operation it raises
handle_read10_continue(s, max_size) ==
    IF ~s.long_operation.active
    THEN Ret(s, "raise", <<"none">>, 0)
    ELSE read10_from(s, s.long_operation.current_lba,
                     s.long_operation.remaining_length, max_size)

\* StorageDevice.handle_cmd: any exception becomes StorageError(FAILED)
handle_cmd(s, cmd, max_size) ==
    CASE cmd[1] = 0 -> handle_test_unit_ready(s, cmd)
      [] cmd[1] = 3 -> handle_request_sense(s, cmd)
      [] cmd[1] = 18 -> handle_inquiry(s, cmd)
      [] cmd[1] = 26 -> handle_mode_sense6(s, cmd)
      [] cmd[1] = 37 -> handle_read_capacity_10(s, cmd)
      [] cmd[1] = 35 -> handle_read_format_capacity(s, cmd)
      [] cmd[1] = 40 -> handle_read10(s, cmd, max_size)
      [] cmd[1] = 90 -> handle_mode_sense10(s, cmd)
      [] OTHER -> Ret(s, "raise", <<"none">>, 0)


\* ---- state of MSCInterface, its StorageDevice and the USB stack around it
VARIABLES
    open,               \* USBInterface._open: the host has configured the device
    stage,              \* MSCInterface.stage (None before the first prepare_cbw)
    transferred_length, \* MSCInterface.transferred_length
    rx_data,            \* MSCInterface.rx_data: the 31-byte CBW buffer
    cbw,                \* MSCInterface.cbw
    csw,                \* MSCInterface.csw
    data,               \* MSCInterface.data
    stall_in,           \* bulk IN endpoint stalled
    stall_out,          \* bulk OUT endpoint stalled
    filesystem,         \* StorageDevice.filesystem
    sense,              \* StorageDevice.sense
    sense_key,          \* StorageDevice.sense_key ("unset" until reset())
    long_operation,     \* StorageDevice.long_operation
    out_pending,        \* OUT transfers submitted and not completed: for each,
                        \* whether its buffer is still self.rx_data
    in_pending,         \* IN transfers submitted and not completed
    sched,              \* micropython.schedule queue (FIFO)
    timer,              \* the one-shot retry timer is armed
    descriptors,        \* get_endpoint_descriptors has run
    resets,             \* re-arming control requests received so far
    obs                 \* observations of the run (history, not program state)

\* ---- state of the LoRa modem (BaseModem), its chip and its clock; the
\* mass-storage actions leave it unchanged
VARIABLES
    rx,             \* BaseModem._rx: RxFalse, RxTrue or the receive deadline
    rx_continuous,  \* BaseModem._rx_continuous
    rx_length,      \* BaseModem._rx_length
    tx,             \* BaseModem._tx
    last_irq,       \* BaseModem._last_irq (None or a ticks_ms value)
    irq_callback,   \* BaseModem._irq_callback is set
    crc_errors,     \* BaseModem.crc_errors
    rx_crc_error,   \* BaseModem.rx_crc_error
    ant_sw,         \* position of the antenna switch: "idle", "rx" or "tx"
    mode,           \* what the radio chip is doing
    flags,          \* the chip's pending IRQ flags
    now,            \* utime.ticks_ms()
    soft,           \* scheduled soft ISRs that have not run yet
    lobs            \* observations of the last modem call (history)

lora_vars ==
    <<rx, rx_continuous, rx_length, tx, last_irq, irq_callback, crc_errors, rx_crc_error,
      ant_sw, mode, flags, now, soft, lobs>>

\* ---- the modulation settings of the modem and the last time-on-air query;
\* the mass-storage and the modem actions leave them unchanged
VARIABLES
    cfg,            \* _sf, _bw_hz, _coding_rate, _crc_en, _implicit_header,
                    \* _preamble_len and the chip family
    air             \* the last query: its payload length and its result

air_vars == <<cfg, air>>

\* an IN transfer: its completion callback and its buffer
InXfer(cb, d, frame) ==
    [cb |-> cb, len |-> IF cb = "send_csw_callback" THEN Len(frame) ELSE DataLen(d),
     body |-> d.body, resp |-> d.resp, pad |-> d.pad, frame |-> frame]

\* observations: the last action (ev), the stage it started in (from), and,
\* since the last CBW was handled: how handle_cbw left (out), the check that
\* raised BadCbw (bad), the transfer length of the CBW it decoded (n),
\* whether it was accepted into the DATA phase (acc) or passed
\* validation (valid), the handler's response length (d), whether a long
\* operation was pending during it (lop), the response and padding bytes
\* submitted on IN (resp, pad), the CSWs submitted (csws) with the last
\* one's frame and the transferred_length at that moment, every transfer
\* submitted (subs), the stage in which the last CSW was submitted, and
\* whether a later CBW completion was ignored for arriving outside CMD (drop);
\* wait: a CBW with a wrong signature was handled and no Reset request has
\* arrived since (subs then counts the transfers submitted since).
NoObs ==
    [ev |-> "init", out |-> "", bad |-> "", n |-> 0, acc |-> FALSE, valid |-> FALSE,
     d |-> 0, lop |-> FALSE, resp |-> 0, pad |-> 0, csws |-> 0, csw_frame |-> <<>>,
     csw_tl |-> PyInt(0), csw_stage |-> None, subs |-> 0, wait |-> FALSE, from |-> None,
     drop |-> FALSE]

\* the state as one record, for the handlers below
M ==
    [open |-> open, stage |-> stage, transferred_length |-> transferred_length,
     rx_data |-> rx_data, cbw |-> cbw, csw |-> csw, data |-> data,
     stall_in |-> stall_in, stall_out |-> stall_out, filesystem |-> filesystem,
     sense |-> sense, sense_key |-> sense_key, long_operation |-> long_operation,
     out_pending |-> out_pending, in_pending |-> in_pending, sched |-> sched,
     timer |-> timer, exc |-> FALSE, obs |-> obs]

\* micropython.schedule(fn, arg)
schedule(s, fn, x) == [s EXCEPT !.sched = Append(@, [fn |-> fn, x |-> x])]

\* USBInterface.set_ep_stall
set_ep_stall(s, ep, stall) ==
    IF ep = "in" THEN [s EXCEPT !.stall_in = stall] ELSE [s EXCEPT !.stall_out = stall]

\* Bind(e, F) is F(e) with e evaluated once, before F is applied
Bind(e, F(_)) == CHOOSE r \in {F(x) : x \in {e}} : TRUE

\* USBInterface.submit_xfer on the OUT endpoint with buffer self.rx_data:
\* RuntimeError while the device is not open, else the transfer is queued
submit_out(s_) ==
    Bind(s_, LAMBDA s :
        IF ~s.open
        THEN [s EXCEPT !.exc = TRUE]
        ELSE [s EXCEPT !.out_pending = Append(@, TRUE), !.obs.subs = Min(@ + 1, 3)])

\* USBInterface.submit_xfer on the IN endpoint
submit_in(s_, x_) ==
    Bind(s_, LAMBDA s : Bind(x_, LAMBDA x :
        IF ~s.open
        THEN [s EXCEPT !.exc = TRUE]
        ELSE [s EXCEPT !.in_pending = Append(@, x),
                       !.obs.subs = Min(@ + 1, 3),
                       !.obs.resp = IF x.cb = "send_csw_callback" \/ s.obs.csws > 0
                                    THEN @ ELSE @ + x.resp,
                       !.obs.pad = IF x.cb = "send_csw_callback" \/ s.obs.csws > 0
                                   THEN @ ELSE @ + x.pad,
                       !.obs.csws = IF x.cb = "send_csw_callback" THEN Min(@ + 1, 2) ELSE @,
                       !.obs.csw_frame = IF x.cb = "send_csw_callback" THEN x.frame ELSE @,
                       !.obs.csw_tl = IF x.cb = "send_csw_callback"
                                      THEN s.transferred_length ELSE @]))

\* MSCInterface.prepare_cbw: a fresh rx_data buffer replaces the one any
\* outstanding OUT transfer was submitted with
prepare_cbw(s) ==
    submit_out([s EXCEPT !.stage = MSC_STAGE_CMD,
                         !.transferred_length = PyInt(0),
                         !.rx_data = Zeros(CbwLen),
                         !.out_pending = [i \in 1..Len(@) |-> FALSE]])

\* MSCInterface.try_to_prepare_cbw: on RuntimeError arm the retry timer
try_to_prepare_cbw(s) ==
    Bind(prepare_cbw(s), LAMBDA t :
        IF t.exc THEN [t EXCEPT !.exc = FALSE, !.timer = TRUE] ELSE t)

\* reset with the IN endpoint left stalled
reset_keeps_stall(s) ==
    prepare_cbw(
        set_ep_stall(
            storage_reset([s EXCEPT !.stage = MSC_STAGE_CMD,
                                    !.transferred_length = PyInt(0)]),
            "out", FALSE))

\* MSCInterface.reset
reset(s) ==
    prepare_cbw(
        set_ep_stall(
            set_ep_stall(
                storage_reset([s EXCEPT !.stage = MSC_STAGE_CMD,
                                        !.transferred_length = PyInt(0)]),
                "in", FALSE),
            "out", FALSE))

\* MSCInterface.prepare_for_csw
prepare_for_csw(s, status) ==
    [s EXCEPT !.csw.bCSWStatus = status, !.stage = MSC_STAGE_STATUS]

\* MSCInterface.validate_cbw: bad is TRUE when it raises BadCbw (why says
\* which check raised), else status is the value it returns
validate_cbw(s_) ==
    Bind(s_, LAMBDA s :
        IF s.stage # MSC_STAGE_CMD
        THEN [bad |-> FALSE, why |-> "", status |-> STATUS_PHASE_ERROR, s |-> s]
        ELSE IF Len(s.rx_data) # 31
        THEN [bad |-> TRUE, why |-> "length", status |-> None, s |-> s]
        ELSE IF s.cbw.dCBWSignature # PyInt(CBW_SIGNATURE)
        THEN [bad |-> TRUE, why |-> "signature", status |-> None, s |-> s]
        ELSE IF s.cbw.bCBWLUN > 15
                  \/ ~(0 < s.cbw.bCBWCBLength /\ s.cbw.bCBWCBLength < 17)
        THEN [bad |-> TRUE, why |-> "meaningful", status |-> None, s |-> s]
        ELSE IF s.cbw.bCBWLUN # 0
        THEN [bad |-> TRUE, why |-> "meaningful", status |-> None, s |-> s]
        ELSE Bind(validate_cmd(s, Slice(s.cbw.CBWCB, 0, s.cbw.bCBWCBLength)),
                  LAMBDA v :
                      [bad |-> FALSE, why |-> "",
                       status |-> IF v.ok THEN STATUS_PASSED ELSE STATUS_FAILED,
                       s |-> v.s]))

\* send_csw with the residue always recomputed from transferred_length
send_csw_recomputed(s_) ==
    Bind(s_, LAMBDA s :
    Bind([s EXCEPT !.csw.dCSWDataResidue =
                       PySub(s.cbw.dCBWDataTransferLength, s.transferred_length)],
         LAMBDA s1 :
    Bind(s1.csw.dCSWDataResidue, LAMBDA r :
        IF s1.transferred_length = PyInt(0) /\ r # PyInt(0)
        THEN IF PyLess(r, PyInt(0)) \/ Huge(r)
             THEN [s1 EXCEPT !.transferred_length = r]
             ELSE submit_in([s1 EXCEPT !.transferred_length = r],
                            InXfer("padding_sent",
                                   [body |-> <<"none">>, resp |-> 0, pad |-> PyVal(r)],
                                   <<>>))
        ELSE IF s1.csw.dCSWTag = PyInt(None)
        THEN \* hex(None), for the log line, raises TypeError
             s1
        ELSE submit_in([s1 EXCEPT !.stage = MSC_STAGE_STATUS_SENT,
                                  !.obs.csw_stage = s1.stage],
                       InXfer("send_csw_callback", NoData, CSW_bytes(s1.csw))))))

\* MSCInterface.send_csw
send_csw(s_) ==
    Bind(s_, LAMBDA s :
    Bind(IF s.csw.dCSWDataResidue = PyInt(0)
         THEN [s EXCEPT !.csw.dCSWDataResidue =
                            PySub(s.cbw.dCBWDataTransferLength, s.transferred_length)]
         ELSE s, LAMBDA s1 :
    Bind(s1.csw.dCSWDataResidue, LAMBDA r :
        IF s1.transferred_length = PyInt(0) /\ r # PyInt(0)
        THEN IF PyLess(r, PyInt(0)) \/ Huge(r)
             THEN \* bytearray(r) raises: ValueError for a negative r,
                  \* MemoryError for 2^31 and more
                  [s1 EXCEPT !.transferred_length = r]
             ELSE submit_in([s1 EXCEPT !.transferred_length = r],
                            InXfer("padding_sent",
                                   [body |-> <<"none">>, resp |-> 0, pad |-> PyVal(r)],
                                   <<>>))
        ELSE IF s1.csw.dCSWTag = PyInt(None)
        THEN \* hex(None), for the log line, raises TypeError
             s1
        ELSE submit_in([s1 EXCEPT !.stage = MSC_STAGE_STATUS_SENT,
                                  !.obs.csw_stage = s1.stage],
                       InXfer("send_csw_callback", NoData, CSW_bytes(s1.csw))))))

\* the tail of proc_transfer_data with the last chunk left unpadded
submit_data_unpadded(s2) ==
    IF ~s2.long_operation.active
    THEN IF DataLen(s2.data) = 0
         THEN schedule(prepare_for_csw(s2, STATUS_PASSED), "send_csw", 0)
         ELSE Bind(PySub(s2.cbw.dCBWDataTransferLength,
                         PyAdd(s2.transferred_length, PyInt(DataLen(s2.data)))),
                   LAMBDA residue :
              Bind(IF residue # PyInt(0)
                   THEN [s2 EXCEPT !.csw.dCSWDataResidue = residue]
                   ELSE s2, LAMBDA s3 :
                  submit_in(s3, InXfer("transfer_data", s3.data, <<>>))))
    ELSE submit_in(s2, InXfer("transfer_data", s2.data, <<>>))

\* the tail of proc_transfer_data, once self.data holds what is to be sent
submit_data(s2) ==
    IF ~s2.long_operation.active
    THEN IF DataLen(s2.data) = 0
         THEN schedule(prepare_for_csw(s2, STATUS_PASSED), "send_csw", 0)
         ELSE Bind(PySub(s2.cbw.dCBWDataTransferLength,
                         PyAdd(s2.transferred_length, PyInt(DataLen(s2.data)))),
                   LAMBDA residue :
              IF Huge(residue)
              THEN \* "\0" * residue raises MemoryError: nothing is submitted
                   [s2 EXCEPT !.csw.dCSWDataResidue = residue]
              ELSE
              Bind(IF residue # PyInt(0)
                   THEN [s2 EXCEPT !.csw.dCSWDataResidue = residue,
                                   \* "\0" * residue is empty for a negative residue
                                   !.data.pad = IF PyLess(residue, PyInt(0)) THEN @
                                                ELSE @ + PyVal(residue)]
                   ELSE s2, LAMBDA s3 :
                  submit_in(s3, InXfer("transfer_data", s3.data, <<>>))))
    ELSE submit_in(s2, InXfer("transfer_data", s2.data, <<>>))

\* MSCInterface.proc_transfer_data((ep_addr, result, xferred_bytes))
proc_transfer_data(s_, xferred_bytes, max_size) ==
    Bind([s_ EXCEPT !.transferred_length = PyAdd(@, PyInt(xferred_bytes))], LAMBDA s1 :
        IF s1.stage # MSC_STAGE_DATA
        THEN s1
        ELSE Bind(DataAfter(s1.data, xferred_bytes), LAMBDA d1 :
             IF DataLen(d1) = 0 /\ s1.long_operation.active
             THEN Bind(handle_read10_continue(s1, max_size), LAMBDA r :
                  IF r.res = "raise"
                  THEN \* the exception leaves proc_transfer_data
                       [r.s EXCEPT !.data = d1, !.obs.lop = TRUE]
                  ELSE
                  Bind([r.s EXCEPT !.data = [body |-> r.body, resp |-> r.len, pad |-> 0],
                                   !.obs.lop = TRUE], submit_data))
             ELSE Bind([s1 EXCEPT !.data = d1,
                                  !.obs.lop = @ \/ s1.long_operation.active],
                       submit_data)))

\* the part of handle_cbw after validation passed: dispatch and first data
dispatch_cbw(s1, max_size) ==
    Bind(handle_cmd(s1, Slice(s1.cbw.CBWCB, 0, s1.cbw.bCBWCBLength), max_size),
         LAMBDA r :
    Bind([r.s EXCEPT !.obs.d = r.len, !.obs.lop = r.s.long_operation.active],
         LAMBDA s2 :
        IF r.res = "raise"
        THEN schedule(prepare_for_csw([s2 EXCEPT !.obs.out = "StorageError"],
                                      STATUS_FAILED), "send_csw", 0)
        ELSE IF r.res = "None"
        THEN schedule(prepare_for_csw([s2 EXCEPT !.obs.out = "None"],
                                      STATUS_PASSED), "send_csw", 0)
        ELSE IF PyLess(s2.cbw.dCBWDataTransferLength, PyInt(r.len))
        THEN schedule(prepare_for_csw([s2 EXCEPT !.obs.out = "too_long"],
                                      STATUS_FAILED), "send_csw", 0)
        ELSE IF r.len = 0
        THEN schedule(prepare_for_csw([s2 EXCEPT !.obs.out = "empty"],
                                      STATUS_PASSED), "send_csw", 0)
        ELSE proc_transfer_data(
                 [s2 EXCEPT !.data = [body |-> r.body, resp |-> r.len, pad |-> 0],
                            !.obs.out = "data"],
                 0, max_size)))

\* MSCInterface.handle_cbw
handle_cbw(s_, max_size) ==
    Bind(s_, LAMBDA s :
    Bind([s EXCEPT !.csw.dCSWTag = s.cbw.dCBWTag,
                   !.csw.dCSWDataResidue = PyInt(0),
                   !.csw.bCSWStatus = STATUS_PASSED,
                   !.obs = [NoObs EXCEPT !.ev = s.obs.ev, !.n = s.obs.n,
                                         !.from = s.stage, !.wait = s.obs.wait,
                                         !.subs = IF s.obs.wait THEN s.obs.subs
                                                  ELSE 0]], LAMBDA s0 :
    Bind(validate_cbw(s0), LAMBDA v :
        IF v.bad
        THEN [set_ep_stall(set_ep_stall(v.s, "in", TRUE), "out", TRUE)
                 EXCEPT !.obs.out = "BadCbw", !.obs.bad = v.why,
                        !.obs.wait = @ \/ v.why = "signature",
                        !.obs.subs = IF s0.obs.wait THEN @ ELSE 0]
        ELSE IF v.status # STATUS_PASSED
        THEN schedule(prepare_for_csw([v.s EXCEPT !.obs.out = "invalid",
                                                  !.obs.valid = TRUE], v.status),
                      "send_csw", 0)
        ELSE Bind([v.s EXCEPT !.stage = MSC_STAGE_DATA,
                              !.obs.acc = TRUE, !.obs.valid = TRUE],
                  LAMBDA s1 : dispatch_cbw(s1, max_size)))))

\* MSCInterface.receive_cbw_callback(ep_addr, result, xferred_bytes)
receive_cbw_callback(s, xferred_bytes) ==
    schedule(s, "proc_receive_cbw_callback", xferred_bytes)

\* MSCInterface.transfer_data(ep_addr, result, xferred_bytes)
transfer_data(s, xferred_bytes) == schedule(s, "proc_transfer_data", xferred_bytes)

\* MSCInterface.padding_sent(ep_addr, result, xferred_bytes)
padding_sent(s, xferred_bytes) == schedule(s, "send_csw", 0)

\* MSCInterface.send_csw_callback(ep_addr, result, xferred_bytes)
send_csw_callback(s, xferred_bytes) == schedule(s, "prepare_cbw", 0)

\* MSCInterface.proc_receive_cbw_callback((ep_addr, result, xferred_bytes))
proc_receive_cbw_callback(s_, xferred_bytes, max_size) ==
    Bind(s_, LAMBDA s :
        IF s.stage = MSC_STAGE_CMD
        THEN handle_cbw([s EXCEPT !.cbw = CBW_from_binary(s.rx_data),
                                  !.obs.n = xferred_bytes], max_size)
        ELSE [s EXCEPT !.obs.drop = TRUE, !.obs.n = xferred_bytes])


\* MSCInterface.handle_interface_control_xfer(STAGE_SETUP, class request)
handle_interface_control_xfer(s, bRequest) ==
    IF bRequest = 255
    THEN reset(s)
    ELSE IF bRequest = 254
    THEN IF s.stage = None THEN prepare_cbw(s) ELSE s
    ELSE s

\* MSCInterface.handle_endpoint_control_xfer(STAGE_SETUP, request) with
\* wIndex naming the bulk endpoint ep
handle_endpoint_control_xfer(s, ep) ==
    IF s.stage = MSC_STAGE_NEED_RESET
    THEN s
    ELSE IF ep = "in" /\ s.stage = MSC_STAGE_STATUS
    THEN \* self.send_csw() lacks its argument: TypeError
         s
    ELSE IF ep = "out" /\ s.stage = MSC_STAGE_CMD
    THEN prepare_cbw(s)
    ELSE s

\* ---- what the host sends
\* the signature 0xDEADBEEF
DEADBEEF == <<57005, 48879>>

\* the transfer length 0xFFFFFFFF
FFFFFFFF == <<65535, 65535>>

Cdb6(op) == <<op, 0, 0, 0, 0, 0>>

Read10Cdb(lba, n) == <<40, 0>> \o BE32(lba) \o <<0>> \o BE16(n) \o <<0>>

HostCbw(sig, tag, dlen, lun, cblen, cb) ==
    CBW_bytes([dCBWSignature |-> sig, dCBWTag |-> tag,
               dCBWDataTransferLength |-> dlen,
               bmCBWFlags |-> 128, bCBWLUN |-> lun, bCBWCBLength |-> cblen, CBWCB |-> cb])

\* the frames the host may put on the OUT endpoint, with the number of
\* bytes of each that it sends
HostFrames ==
    { <<HostCbw(PyInt(CBW_SIGNATURE), PyInt(1), PyInt(0), 0, 6, Cdb6(0)), 31>>,
      <<HostCbw(PyInt(CBW_SIGNATURE), PyInt(2), PyInt(8), 0, 6, Cdb6(0)), 31>>,
      <<HostCbw(PyInt(CBW_SIGNATURE), PyInt(1), PyInt(18), 0, 6, Cdb6(3)), 31>>,
      <<HostCbw(PyInt(CBW_SIGNATURE), PyInt(2), PyInt(block_size), 0, 10, Read10Cdb(0, 1)), 31>>,
      <<HostCbw(PyInt(CBW_SIGNATURE), PyInt(1), PyInt(2 * block_size), 0, 10, Read10Cdb(0, 2)), 31>>,
      <<HostCbw(PyInt(CBW_SIGNATURE), PyInt(2), PyInt(2 * block_size), 0, 10, Read10Cdb(1, 2)), 31>>,
      <<HostCbw(PyInt(CBW_SIGNATURE), PyInt(1), PyInt(3 * block_size), 0, 10, Read10Cdb(1, 3)), 31>>,
      <<HostCbw(PyInt(CBW_SIGNATURE), PyInt(2), PyInt(block_size), 0, 10, Read10Cdb(0, 2)), 31>>,
      <<HostCbw(PyInt(CBW_SIGNATURE), PyInt(1), PyInt(0), 0, 10, Read10Cdb(0, 2)), 31>>,
      <<HostCbw(PyInt(CBW_SIGNATURE), PyInt(1), PyInt(block_size), 0, 10, Read10Cdb(0, 1) ), 20>>,
      <<HostCbw(PyInt(CBW_SIGNATURE), PyInt(2), PyInt(block_size), 0, 11, Read10Cdb(0, 1)), 31>>,
      <<HostCbw(PyInt(CBW_SIGNATURE), PyInt(1), PyInt(block_size), 0, 10, Cdb6(42)), 31>>,
      <<HostCbw(PyInt(CBW_SIGNATURE), PyInt(2), PyInt(0), 0, 6, Cdb6(171)), 31>>,
      <<HostCbw(DEADBEEF, PyInt(1), PyInt(0), 0, 6, Cdb6(0)), 31>>,
      <<HostCbw(PyInt(CBW_SIGNATURE), PyInt(2), PyInt(0), 0, 6, Cdb6(0)), 2>>,
      <<HostCbw(PyInt(CBW_SIGNATURE), PyInt(1), PyInt(8), 1, 6, Cdb6(0)), 31>>,
      <<HostCbw(PyInt(CBW_SIGNATURE), PyInt(2), PyInt(8), 16, 6, Cdb6(0)), 31>>,
      <<HostCbw(PyInt(CBW_SIGNATURE), PyInt(1), PyInt(8), 0, 0, Cdb6(0)), 31>>,
      <<HostCbw(PyInt(CBW_SIGNATURE), PyInt(2), PyInt(8), 0, 17, Cdb6(0)), 31>>,
      <<HostCbw(PyInt(CBW_SIGNATURE), PyInt(1), FFFFFFFF, 0, 6, Cdb6(0)), 31>>,
      <<HostCbw(PyInt(CBW_SIGNATURE), PyInt(2), FFFFFFFF, 0, 6, Cdb6(18)), 31>> }

\* ---- actions
SetM(t_) ==
    \E t \in {t_} :
        /\ open' = t.open
        /\ stage' = t.stage
        /\ transferred_length' = t.transferred_length
        /\ rx_data' = t.rx_data
        /\ cbw' = t.cbw
        /\ csw' = t.csw
        /\ data' = t.data
        /\ stall_in' = t.stall_in
        /\ stall_out' = t.stall_out
        /\ filesystem' = t.filesystem
        /\ sense' = t.sense
        /\ sense_key' = t.sense_key
        /\ long_operation' = t.long_operation
        /\ out_pending' = t.out_pending
        /\ in_pending' = t.in_pending
        /\ sched' = t.sched
        /\ timer' = t.timer
        /\ obs' = t.obs
        /\ UNCHANGED <<lora_vars, air_vars>>

\* the state an action starts from: obs records the action and the stage
Enter(name) == [M EXCEPT !.obs.ev = name, !.obs.from = stage]

\* the state with the head of the schedule queue taken off
Popped(name) == [Enter(name) EXCEPT !.sched = Tail(@)]

\* MSCInterface.get_endpoint_descriptors
get_endpoint_descriptors ==
    /\ ~descriptors
    /\ descriptors' = TRUE
    /\ SetM(schedule(Enter("get_endpoint_descriptors"), "try_to_prepare_cbw", 0))
    /\ UNCHANGED resets

\* the host configures the device: USBInterface._open becomes true
DeviceOpen ==
    /\ descriptors
    /\ ~open
    /\ SetM([Enter("open") EXCEPT !.open = TRUE])
    /\ UNCHANGED <<descriptors, resets>>

\* the scheduler runs try_to_prepare_cbw
RunTryToPrepareCbw ==
    /\ sched # <<>>
    /\ Head(sched).fn = "try_to_prepare_cbw"
    /\ SetM(try_to_prepare_cbw(Popped("try_to_prepare_cbw")))
    /\ UNCHANGED <<descriptors, resets>>

\* the one-shot timer fires its callback, try_to_prepare_cbw
TimerFire ==
    /\ timer
    /\ SetM(try_to_prepare_cbw([Enter("timer") EXCEPT !.timer = FALSE]))
    /\ UNCHANGED <<descriptors, resets>>

\* class request 0xFE, Get Max LUN
GetMaxLun ==
    /\ open
    /\ SetM(handle_interface_control_xfer(Enter("get_max_lun"), 254))
    /\ UNCHANGED <<descriptors, resets>>

\* class request 0xFF, Mass-Storage Reset
ResetRequest ==
    /\ open
    /\ resets < MaxResets
    /\ resets' = resets + 1
    /\ SetM(handle_interface_control_xfer(
                [Enter("reset") EXCEPT !.obs.wait = FALSE], 255))
    /\ UNCHANGED descriptors

\* a control request addressed to the bulk OUT endpoint while the stage is
\* CMD; in every other case handle_endpoint_control_xfer changes nothing
EndpointControl ==
    /\ open
    /\ stage = MSC_STAGE_CMD
    /\ resets < MaxResets
    /\ resets' = resets + 1
    /\ SetM(handle_endpoint_control_xfer(Enter("endpoint_control"), "out"))
    /\ UNCHANGED descriptors

\* the host sends n bytes of a frame; the oldest OUT transfer completes
\* into the buffer it was submitted with, and receive_cbw_callback
\* schedules proc_receive_cbw_callback
OutComplete ==
    /\ open
    /\ out_pending # <<>>
    /\ ~stall_out
    /\ \E f \in HostFrames :
         LET s == [Enter("receive_cbw_callback") EXCEPT
                      !.out_pending = Tail(@),
                      !.rx_data = IF Head(out_pending)
                                  THEN [i \in 1..CbwLen |->
                                           IF i <= f[2] THEN f[1][i] ELSE 0]
                                  ELSE @]
         IN  SetM(receive_cbw_callback(s, f[2]))
    /\ UNCHANGED <<descriptors, resets>>

\* the host reads the oldest IN transfer; its callback (transfer_data,
\* padding_sent or send_csw_callback) schedules the next step
InComplete ==
    /\ open
    /\ in_pending # <<>>
    /\ ~stall_in
    /\ LET x == Head(in_pending)
           s == [Enter(x.cb) EXCEPT !.in_pending = Tail(@)]
       IN  SetM(CASE x.cb = "transfer_data" -> transfer_data(s, x.len)
                  [] x.cb = "padding_sent" -> padding_sent(s, x.len)
                  [] x.cb = "send_csw_callback" -> send_csw_callback(s, x.len))
    /\ UNCHANGED <<descriptors, resets>>

\* the scheduler runs proc_receive_cbw_callback
RunProcReceiveCbw ==
    /\ sched # <<>>
    /\ Head(sched).fn = "proc_receive_cbw_callback"
    /\ \E max_size \in 1..MaxBudget :
         SetM(proc_receive_cbw_callback(Popped("proc_receive_cbw_callback"),
                                        Head(sched).x, max_size))
    /\ UNCHANGED <<descriptors, resets>>

\* the scheduler runs proc_transfer_data
RunProcTransferData ==
    /\ sched # <<>>
    /\ Head(sched).fn = "proc_transfer_data"
    /\ \E max_size \in 1..MaxBudget :
         SetM(proc_transfer_data(Popped("proc_transfer_data"), Head(sched).x, max_size))
    /\ UNCHANGED <<descriptors, resets>>

\* the scheduler runs send_csw
RunSendCsw ==
    /\ sched # <<>>
    /\ Head(sched).fn = "send_csw"
    /\ SetM(send_csw(Popped("send_csw")))
    /\ UNCHANGED <<descriptors, resets>>

\* the scheduler runs prepare_cbw
RunPrepareCbw ==
    /\ sched # <<>>
    /\ Head(sched).fn = "prepare_cbw"
    /\ SetM(prepare_cbw(Popped("prepare_cbw")))
    /\ UNCHANGED <<descriptors, resets>>

msc_vars ==
    <<open, stage, transferred_length, rx_data, cbw, csw, data, stall_in, stall_out,
      filesystem, sense, sense_key, long_operation, out_pending, in_pending, sched,
      timer, descriptors, resets, obs>>

(***************************************************************************)
(* The LoRa modem core: BaseModem (modem.py) over a radio chip             *)
(***************************************************************************)

\* ticks_ms() wraps at TicksPeriod (2^30 on the hardware)
TicksPeriod == 4
\* the longest receive timeout, in ms, the application asks for
MaxTimeout == 1
\* invalid receives the radio produces in one run
MaxCrcErrors == 1
\* soft ISRs scheduled and not yet run
MaxSoft == 1
\* radio events, scheduled callbacks and clock ticks that fall inside one
\* poll_recv or poll_send call
MaxInside == 1

\* _rx = False and _rx = True; a deadline is a tick in 0 .. TicksPeriod - 1
RxFalse == 0 - 2
RxTrue == 0 - 3

\* utime.ticks_add and utime.ticks_diff on the wrapping clock
ticks_add(t, d) == (t + d) % TicksPeriod
ticks_diff(a, b) == ((a - b + TicksPeriod \div 2) % TicksPeriod) - TicksPeriod \div 2

\* Python's "not x" for the values _rx takes: False, and the integer 0
Falsy(x) == x = RxFalse \/ x = 0
\* isinstance(x, int): MicroPython's bool is not an int
IsInt(x) == x >= 0

\* ---- the radio chip driver, from its interface
IRQ_RX_COMPLETE == {"rx_done", "timeout"}
IRQ_TX_COMPLETE == {"tx_done"}
AllFlags == {"tx_done", "rx_done", "crc_err", "timeout"}
RxModes == {"rx_single", "rx_timed", "rx_cont"}

is_idle(s) == s.mode = "standby"
get_irq(s) == s.flags
clear_irq(s, mask) == [s EXCEPT !.flags = @ \ mask]
chip_standby(s) == [s EXCEPT !.mode = "standby"]
\* _read_packet: the payload in the FIFO as an RxPacket, here its length
\* (fifo: 0, or 1 for some bytes; what the chip holds when it is read)
read_packet(s) == s.fifo
\* a receive is valid when it completed without CRC error or timeout
rx_flags_success(f) == f \cap {"rx_done", "crc_err", "timeout"} = {"rx_done"}

\* ---- BaseModem
\* the history of the last modem call: its name (ev), its arguments (a_t,
\* a_c), what it returned (ret, val, packet), the state it found (rx0, tx0),
\* whether poll_send read the TX-complete flag (txflag), what _check_recv
\* found (chk, chk_rx, and chk_idle: the radio was idle), the tick it read
\* (chk_now), whether it issued start_recv again (rearm),
\* the timeout it gave to the start_recv it re-issued (rearm_t),
\* the soft ISRs it ran and the callback calls they made (isr, cb); and over
\* the calls: the completions reported for the current send (stamps)
NoLobs ==
    [ev |-> "", ret |-> "", val |-> None, stamps |-> 0,
     chk |-> FALSE, chk_rx |-> RxFalse, chk_idle |-> FALSE, chk_now |-> None,
     rearm |-> FALSE, tx0 |-> FALSE, txflag |-> FALSE, packet |-> FALSE,
     a_t |-> None, a_c |-> FALSE, isr |-> 0, cb |-> 0, rx0 |-> RxFalse,
     rearm_t |-> None]

\* the modem, its chip and its clock as one value; fifo, inj and used are
\* the inputs of the call in progress: the payload the chip holds, what
\* happens around the modem while the call runs, and how much of it has
\* happened
L ==
    [rx |-> rx, rx_continuous |-> rx_continuous, rx_length |-> rx_length, tx |-> tx,
     last_irq |-> last_irq, irq_callback |-> irq_callback,
     crc_errors |-> crc_errors, rx_crc_error |-> rx_crc_error,
     ant_sw |-> ant_sw, mode |-> mode, flags |-> flags, fifo |-> 1,
     inj |-> <<>>, used |-> 0,
     now |-> now,
     soft |-> soft,
     lobs |-> lobs, res |-> FALSE]

\* _radio_isr that calls the callback without recording the tick
radio_isr_no_stamp(s, pin) ==
    [s EXCEPT !.lobs.isr = IF pin = "None" THEN @ + 1 ELSE @,
              !.lobs.cb = IF s.irq_callback /\ pin = "None" THEN @ + 1 ELSE @]

\* _radio_isr(pin): record the tick of the interrupt and call the irq
\* callback, if one is set, with the pin (None for a soft ISR)
radio_isr(s, pin) ==
    [s EXCEPT !.last_irq = s.now,
              !.lobs.isr = IF pin = "None" THEN @ + 1 ELSE @,
              !.lobs.cb = IF s.irq_callback /\ pin = "None" THEN @ + 1 ELSE @]

\* irq_triggered()
irq_triggered(s) == s.last_irq # None

\* set_irq_callback(callback)
set_irq_callback(s, callback) == [s EXCEPT !.irq_callback = callback]

\* _get_last_irq: the tick of the last interrupt, or the current tick
get_last_irq(s) == IF s.last_irq = None THEN s.now ELSE s.last_irq

\* ---- what happens around the modem, between two calls or inside one
\* the radio raises its IRQ line, which is wired to _radio_isr: the hard
\* ISR runs with the pin
Irq(s) == radio_isr(s, "dio")

\* a completed receive that poll_recv has not consumed is not a valid one
PendingInvalidIn(s) ==
    s.flags \cap IRQ_RX_COMPLETE # {} /\ ~rx_flags_success(s.flags)

\* the radio finishes transmitting (tx_done), receives a packet with a good
\* or a bad CRC (rx_ok, rx_bad), its own receive timeout expires
\* (rx_timeout), a soft ISR scheduled by _check_recv runs (soft_isr), a
\* millisecond passes (tick)
Events == {"tx_done", "rx_ok", "rx_bad", "rx_timeout", "soft_isr", "tick"}

\* the radio is in the mode, or the scheduler in the state, in which the
\* event happens
Ready(s, e) ==
    CASE e = "tx_done" -> s.mode = "tx"
      [] e \in {"rx_ok", "rx_bad"} -> s.mode \in RxModes
      [] e = "rx_timeout" -> s.mode = "rx_timed"
      [] e = "soft_isr" -> s.soft > 0
      [] e = "tick" -> TRUE

\* the event can happen in the state s: an invalid receive needs room in
\* the run's budget of them, and none left unconsumed
CanHappen(s, e) ==
    /\ Ready(s, e)
    /\ e \in {"rx_bad", "rx_timeout"} =>
          (s.crc_errors < MaxCrcErrors /\ ~PendingInvalidIn(s))

\* the state after the event: a radio event sets its IRQ flags and raises
\* the IRQ line, and a transmission, a single receive or a timed-out one
\* ends in standby
Happen(s, e) ==
    CASE e = "tx_done" ->
            Irq([s EXCEPT !.mode = "standby", !.flags = @ \cup {"tx_done"}])
      [] e = "rx_ok" ->
            Irq([s EXCEPT !.mode = IF @ = "rx_cont" THEN @ ELSE "standby",
                          !.flags = (@ \ {"crc_err"}) \cup {"rx_done"}])
      [] e = "rx_bad" ->
            Irq([s EXCEPT !.mode = IF @ = "rx_cont" THEN @ ELSE "standby",
                          !.flags = @ \cup {"rx_done", "crc_err"}])
      [] e = "rx_timeout" ->
            Irq([s EXCEPT !.mode = "standby", !.flags = @ \cup {"timeout"}])
      [] e = "soft_isr" -> radio_isr([s EXCEPT !.soft = @ - 1], "None")
      [] e = "tick" -> [s EXCEPT !.now = ticks_add(@, 1)]

\* the places inside poll_send and poll_recv where an event changes what
\* the call does: before poll_send reads the IRQ flags (modem.py 418),
\* before the flags read are cleared (325, 429), before _check_recv asks
\* is_idle() (362), and before the re-issued start_recv reads the clock (275)
Points == {"flags", "clear", "idle", "start"}

\* what happens while one call runs: up to MaxInside events, in order, each
\* at one of the places
Inside == UNION {[1..n -> [at : Points, ev : Events]] : n \in 0..MaxInside}

\* the call reaches the place p: the events that fall there happen
RECURSIVE At(_, _)
At(s, p) ==
    IF s.used < Len(s.inj) /\ s.inj[s.used + 1].at = p
          /\ CanHappen(s, s.inj[s.used + 1].ev)
    THEN At([Happen(s, s.inj[s.used + 1].ev) EXCEPT !.used = @ + 1], p)
    ELSE s

\* start_recv that checks its arguments after storing them
base_start_recv_late_check(s, timeout_ms, continuous, len) ==
    LET t == [s EXCEPT !.rx = IF timeout_ms # None THEN ticks_add(s.now, timeout_ms)
                              ELSE RxTrue,
                       !.rx_continuous = continuous,
                       !.rx_length = len]
    IN IF continuous /\ timeout_ms # None
       THEN [t EXCEPT !.lobs.ret = "ValueError"]
       ELSE [t EXCEPT !.ant_sw = IF ~s.tx THEN "rx" ELSE @]

\* BaseModem.start_recv: the bookkeeping common to all chips
base_start_recv(s, timeout_ms, continuous, len) ==
    IF continuous /\ timeout_ms # None
    THEN [s EXCEPT !.lobs.ret = "ValueError"]
    ELSE [s EXCEPT !.rx = IF timeout_ms # None THEN ticks_add(s.now, timeout_ms) ELSE RxTrue,
                   !.rx_continuous = continuous,
                   !.rx_length = len,
                   !.ant_sw = IF ~s.tx THEN "rx" ELSE @]

\* the chip's start_recv: the bookkeeping, then the radio starts to receive
\* unless a send is in progress
start_recv(s, timeout_ms, continuous, len) ==
    LET b == base_start_recv(s, timeout_ms, continuous, len) IN
    IF b.lobs.ret = "ValueError" \/ b.tx THEN b
    ELSE [b EXCEPT !.mode = IF continuous THEN "rx_cont"
                            ELSE IF timeout_ms # None THEN "rx_timed" ELSE "rx_single",
                   !.last_irq = None]

\* the chip's start_send: the radio transmits the prepared payload
start_send(s) ==
    [s EXCEPT !.tx = TRUE, !.mode = "tx", !.ant_sw = "tx", !.last_irq = None,
              !.lobs.stamps = 0]

end_recv(s) == [s EXCEPT !.rx = RxFalse, !.ant_sw = "idle"]

\* _check_recv that leaves _rx as the re-issued start_recv set it
check_recv_no_restore(s0) ==
    IF Falsy(s0.rx)
    THEN [s0 EXCEPT !.lobs.chk = TRUE, !.lobs.chk_rx = s0.rx,
                    !.lobs.chk_idle = is_idle(s0), !.res = FALSE]
    ELSE
    LET a == At(s0, "idle")
        s == [a EXCEPT !.lobs.chk = TRUE, !.lobs.chk_rx = a.rx,
                       !.lobs.chk_idle = is_idle(a),
                       !.lobs.chk_now = IF is_idle(a) /\ IsInt(a.rx) THEN a.now ELSE None]
        timeout_ms == IF IsInt(s.rx) THEN ticks_diff(s.rx, s.now) ELSE None
    IN
    IF ~is_idle(s) THEN [s EXCEPT !.res = TRUE]
    ELSE IF IsInt(s.rx) /\ timeout_ms <= 0
    THEN [end_recv(s) EXCEPT !.soft = @ + 1, !.res = FALSE]
    ELSE [start_recv(At(s, "start"), timeout_ms, s.rx_continuous, s.rx_length)
             EXCEPT !.lobs.rearm = TRUE, !.lobs.rearm_t = timeout_ms,
                    !.res = TRUE]

\* _check_recv: nothing to do when _rx is false (359); busy when the radio is
\* not idle (362); a deadline that has passed ends the receive and
\* schedules a soft ISR (368-378); else start_recv is issued again with the
\* time left and _rx is restored (387-391)
check_recv(s0) ==
    IF Falsy(s0.rx)
    THEN [s0 EXCEPT !.lobs.chk = TRUE, !.lobs.chk_rx = s0.rx,
                    !.lobs.chk_idle = is_idle(s0), !.res = FALSE]
    ELSE
    LET a == At(s0, "idle")
        s == [a EXCEPT !.lobs.chk = TRUE, !.lobs.chk_rx = a.rx,
                       !.lobs.chk_idle = is_idle(a),
                       !.lobs.chk_now = IF is_idle(a) /\ IsInt(a.rx) THEN a.now ELSE None]
        timeout_ms == IF IsInt(s.rx) THEN ticks_diff(s.rx, s.now) ELSE None
    IN
    IF ~is_idle(s) THEN [s EXCEPT !.res = TRUE]
    ELSE IF IsInt(s.rx) /\ timeout_ms <= 0
    THEN [end_recv(s) EXCEPT !.soft = @ + 1, !.res = FALSE]
    ELSE [start_recv(At(s, "start"), timeout_ms, s.rx_continuous, s.rx_length)
             EXCEPT !.rx = s.rx, !.lobs.rearm = TRUE,
                    !.lobs.rearm_t = timeout_ms, !.res = TRUE]

\* poll_recv that ends a single receive on every completed receive, read
\* or not
poll_recv_ends_always(s) ==
    IF s.rx = RxFalse THEN [s EXCEPT !.lobs.ret = "False"]
    ELSE IF s.tx THEN [s EXCEPT !.lobs.ret = "True"]
    ELSE
        LET f == get_irq(s)
            final == f \cap IRQ_RX_COMPLETE
            ok == rx_flags_success(f)
            packet == final # {} /\ (ok \/ s.rx_crc_error)
            truthy == packet /\ read_packet(s) # 0
            s1 == IF final = {} THEN s
                  ELSE LET c == clear_irq(At(s, "clear"), final)
                           e == IF ok THEN c ELSE [c EXCEPT !.crc_errors = @ + 1]
                       IN IF ~e.rx_continuous THEN end_recv(e) ELSE e
            s2 == check_recv(s1)
        IN [s2 EXCEPT !.lobs.packet = packet,
                      !.lobs.ret = IF truthy THEN "packet"
                                   ELSE IF s2.res THEN "True" ELSE "False"]

\* poll_recv: the IRQ flags are read once (312); the RX-complete flags read
\* are cleared (325), a receive that was not valid is counted (327-329), a
\* valid one (or any, with rx_crc_error) is read out and ends a receive
\* that is not continuous (330-335); then _check_recv (342)
poll_recv(s) ==
    IF s.rx = RxFalse THEN [s EXCEPT !.lobs.ret = "False"]
    ELSE IF s.tx THEN [s EXCEPT !.lobs.ret = "True"]
    ELSE
        LET f == get_irq(s)
            final == f \cap IRQ_RX_COMPLETE
            ok == rx_flags_success(f)
            packet == final # {} /\ (ok \/ s.rx_crc_error)
            \* an RxPacket is a bytearray: false when its payload is empty
            truthy == packet /\ read_packet(s) # 0
            s1 == IF final = {} THEN s
                  ELSE LET c == clear_irq(At(s, "clear"), final)
                           e == IF ok THEN c ELSE [c EXCEPT !.crc_errors = @ + 1]
                       IN IF packet /\ ~e.rx_continuous THEN end_recv(e) ELSE e
            s2 == check_recv(s1)
        IN [s2 EXCEPT !.lobs.packet = packet,
                      !.lobs.ret = IF truthy THEN "packet"
                                   ELSE IF s2.res THEN "True" ELSE "False"]

\* poll_send with the completion left pending (tx is not cleared)
poll_send_keeps_tx(s) ==
    IF ~s.tx THEN [s EXCEPT !.lobs.ret = "False"]
    ELSE
        LET ticks_ms == get_last_irq(s)
            a == At(s, "flags")
            seen == get_irq(a) \cap IRQ_TX_COMPLETE # {}
        IN  IF ~seen THEN [a EXCEPT !.lobs.ret = "True"]
            ELSE LET b == At([a EXCEPT !.lobs.txflag = TRUE], "clear")
                     s1 == [clear_irq(b, AllFlags) EXCEPT !.ant_sw = "idle"]
                 IN [check_recv(s1) EXCEPT !.lobs.ret = "ticks", !.lobs.val = ticks_ms,
                                           !.lobs.stamps = @ + 1]

\* poll_send: the tick of the last interrupt is taken first (416), then the
\* IRQ flags are read (418); on TX-complete every IRQ flag is cleared (429),
\* tx ends, the antenna idles and _check_recv resumes a pending receive
poll_send(s) ==
    IF ~s.tx THEN [s EXCEPT !.lobs.ret = "False"]
    ELSE
        LET ticks_ms == get_last_irq(s)
            a == At(s, "flags")
            seen == get_irq(a) \cap IRQ_TX_COMPLETE # {}
        IN  IF ~seen THEN [a EXCEPT !.lobs.ret = "True"]
            ELSE LET b == At([a EXCEPT !.lobs.txflag = TRUE], "clear")
                     s1 == [clear_irq(b, AllFlags) EXCEPT !.tx = FALSE, !.ant_sw = "idle"]
                 IN [check_recv(s1) EXCEPT !.lobs.ret = "ticks", !.lobs.val = ticks_ms,
                                           !.lobs.stamps = @ + 1]

\* standby without the soft ISR at its end
standby_no_isr(s) ==
    [chip_standby(s) EXCEPT !.rx = RxFalse, !.tx = FALSE, !.last_irq = None,
                            !.ant_sw = "idle"]

standby(s) ==
    radio_isr([chip_standby(s) EXCEPT !.rx = RxFalse, !.tx = FALSE, !.last_irq = None,
                                      !.ant_sw = "idle"],
              "None")

\* ---- one action per modem call and per radio event
SetL(t_) ==
    \E t \in {t_} :
        /\ rx' = t.rx
        /\ rx_continuous' = t.rx_continuous
        /\ rx_length' = t.rx_length
        /\ tx' = t.tx
        /\ last_irq' = t.last_irq
        /\ irq_callback' = t.irq_callback
        /\ crc_errors' = t.crc_errors
        /\ rx_crc_error' = t.rx_crc_error
        /\ ant_sw' = t.ant_sw
        /\ mode' = t.mode
        /\ flags' = t.flags
        /\ now' = t.now
        /\ soft' = t.soft
        /\ lobs' = t.lobs
        /\ UNCHANGED <<msc_vars, air_vars>>

\* the modem on entry to a call: the observations of the previous call are
\* dropped, the completions reported for the current send are kept
LEnter(name) ==
    [L EXCEPT !.lobs = [NoLobs EXCEPT !.ev = name, !.stamps = lobs.stamps,
                                      !.rx0 = rx, !.tx0 = tx]]

\* the modem when something other than a modem call happens
Quiet == [L EXCEPT !.lobs = [NoLobs EXCEPT !.stamps = lobs.stamps]]

PendingInvalid == PendingInvalidIn(L)

\* start_recv with any arguments; the short rx_length is tried with the
\* rejected combination of arguments only
StartRecv ==
    \E timeout_ms \in {None} \cup 0..MaxTimeout, continuous \in BOOLEAN, len \in {1, 255} :
        /\ len = 1 => (continuous /\ timeout_ms # None)
        /\ SetL(start_recv([LEnter("start_recv") EXCEPT !.lobs.a_t = timeout_ms,
                                                        !.lobs.a_c = continuous],
                          timeout_ms, continuous, len))

\* poll_recv; the payload it finds in the FIFO is empty or not, and events
\* may fall inside the call: the first of them is one the radio or the
\* scheduler is ready for when the call begins (no statement before the
\* last place changes that), and every event named has happened when the
\* call returns
PollRecv ==
    \E n \in {0, 1}, inj \in Inside :
        /\ IF Len(inj) = 0 THEN TRUE ELSE Ready(L, inj[1].ev)
        /\ \E t \in {poll_recv([LEnter("poll_recv") EXCEPT !.fifo = n, !.inj = inj])} :
              /\ t.used = Len(inj)
              /\ t.soft <= MaxSoft
              /\ SetL(t)

PollSend ==
    \E inj \in Inside :
        /\ IF Len(inj) = 0 THEN TRUE ELSE Ready(L, inj[1].ev)
        /\ \E t \in {poll_send([LEnter("poll_send") EXCEPT !.inj = inj])} :
              /\ t.used = Len(inj)
              /\ t.soft <= MaxSoft
              /\ SetL(t)

\* prepare_send and start_send; the application does not start a send while
\* one is in progress
StartSend ==
    /\ ~tx
    /\ SetL(start_send(LEnter("start_send")))

Standby == SetL(standby(LEnter("standby")))

\* the application sets or removes the irq callback
SetIrqCallback ==
    \E callback \in BOOLEAN :
        /\ callback # irq_callback
        /\ SetL(set_irq_callback(LEnter("set_irq_callback"), callback))

\* the radio finishes transmitting and goes to standby
TxDone == CanHappen(L, "tx_done") /\ SetL(Happen(Quiet, "tx_done"))

\* the radio receives a packet, with a good or a bad CRC; a single receive
\* ends in standby
RxDone ==
    \E e \in {"rx_ok", "rx_bad"} : CanHappen(L, e) /\ SetL(Happen(Quiet, e))

\* the radio's own receive timeout expires
RxTimeout == CanHappen(L, "rx_timeout") /\ SetL(Happen(Quiet, "rx_timeout"))

\* a soft ISR scheduled by _check_recv runs
SoftIsr == CanHappen(L, "soft_isr") /\ SetL(Happen(Quiet, "soft_isr"))

\* a millisecond passes
Tick == SetL(Happen(Quiet, "tick"))

LoraInit ==
    /\ rx = RxFalse
    /\ rx_continuous = FALSE
    /\ rx_length = None
    /\ tx = FALSE
    /\ last_irq = None
    /\ irq_callback = FALSE
    /\ crc_errors = 0
    /\ rx_crc_error \in BOOLEAN
    /\ ant_sw = "idle"
    /\ mode = "standby"
    /\ flags = {}
    /\ now = 0
    /\ soft = 0
    /\ lobs = NoLobs

LoraNext ==
    \/ StartRecv
    \/ PollRecv
    \/ PollSend
    \/ StartSend
    \/ Standby
    \/ TxDone
    \/ RxDone
    \/ RxTimeout
    \/ SoftIsr
    \/ Tick

\* the same, with an application that also sets and removes the irq callback
LoraCallbackNext == LoraNext \/ SetIrqCallback

(***************************************************************************)
(* The time-on-air calculator of BaseModem                                 *)
(***************************************************************************)

\* the longest payload, in bytes, the application asks about
MaxPayload == 20

\* 1 << n
Shl1(n) == 2 ^ n

\* a * b // c for non-negative a, b and positive c, without an intermediate
\* product wider than the result (Python integers do not overflow)
MulDiv(a, b, c) == (a \div c) * b + ((a % c) * b) \div c

\* the settings BaseModem.__init__ leaves
DefaultCfg ==
    [sf |-> 7, bw_hz |-> 125000, coding_rate |-> 5, crc_en |-> TRUE,
     implicit_header |-> FALSE, preamble_len |-> 12, chip |-> "sx127x"]

\* the settings configure() may leave: SF 5 and 6 on the SX126x only
Bandwidths == {7800, 125000, 500000}
Configs ==
    { c \in [sf : 5..12, bw_hz : Bandwidths, coding_rate : 5..8, crc_en : BOOLEAN,
             implicit_header : BOOLEAN, preamble_len : {8, 12},
             chip : {"sx127x", "sx126x"}] :
        c.chip = "sx127x" => c.sf >= 7 }

get_t_sym_us(c) == MulDiv(1000000, Shl1(c.sf), c.bw_hz)

get_ldr_en(c) == get_t_sym_us(c) >= 16000

\* BaseModem._symbol_offsets
base_symbol_offsets == <<0, 0>>

\* the SX126x's _symbol_offsets
sx126x_symbol_offsets(c) == IF c.sf < 7 THEN <<2, 0 - 8>> ELSE <<0, 0>>

symbol_offsets(c) ==
    IF c.chip = "sx126x" THEN sx126x_symbol_offsets(c) ELSE base_symbol_offsets

\* get_n_symbols_x4 with the payload term in bytes instead of bits
get_n_symbols_x4_bytes(c, payload_len) ==
    LET s_o == symbol_offsets(c)[1]
        b_o == symbol_offsets(c)[2]
        bits == Max(payload_len + (IF c.crc_en THEN 16 ELSE 0) - 4 * c.sf + 8 + b_o
                      + (IF c.implicit_header THEN 0 ELSE 20), 0)
        bps == (c.sf - 2 * (IF get_ldr_en(c) THEN 1 ELSE 0)) * 4
    IN 17 + 4 * (c.preamble_len + s_o + 8 + ((bits + bps - 1) \div bps) * c.coding_rate)

\* get_n_symbols_x4 rounding the payload symbols down instead of up
get_n_symbols_x4_floor(c, payload_len) ==
    LET s_o == symbol_offsets(c)[1]
        b_o == symbol_offsets(c)[2]
        bits == Max(8 * payload_len + (IF c.crc_en THEN 16 ELSE 0) - 4 * c.sf + 8 + b_o
                      + (IF c.implicit_header THEN 0 ELSE 20), 0)
        bps == (c.sf - 2 * (IF get_ldr_en(c) THEN 1 ELSE 0)) * 4
    IN 17 + 4 * (c.preamble_len + s_o + 8 + (bits \div bps) * c.coding_rate)

get_n_symbols_x4(c, payload_len) ==
    LET s_o == symbol_offsets(c)[1]
        b_o == symbol_offsets(c)[2]
        bits == Max(8 * payload_len + (IF c.crc_en THEN 16 ELSE 0) - 4 * c.sf + 8 + b_o
                      + (IF c.implicit_header THEN 0 ELSE 20), 0)
        bps == (c.sf - 2 * (IF get_ldr_en(c) THEN 1 ELSE 0)) * 4
    IN 17 + 4 * (c.preamble_len + s_o + 8 + ((bits + bps - 1) \div bps) * c.coding_rate)

\* get_time_on_air_us dividing the symbol count before multiplying
get_time_on_air_us_early_div(c, payload_len) ==
    get_t_sym_us(c) * (get_n_symbols_x4(c, payload_len) \div 4)

get_time_on_air_us(c, payload_len) ==
    (get_t_sym_us(c) * get_n_symbols_x4(c, payload_len)) \div 4

NoAir == [op |-> "", len |-> 0, val |-> 0]

\* the application asks for the symbol count of a payload
GetNSymbolsX4 ==
    /\ \E payload_len \in 0..MaxPayload :
        air' = [op |-> "get_n_symbols_x4", len |-> payload_len,
                val |-> get_n_symbols_x4(cfg, payload_len)]
    /\ UNCHANGED <<cfg, msc_vars, lora_vars>>

\* the application asks for the time on air of a payload
GetTimeOnAirUs ==
    /\ \E payload_len \in 0..MaxPayload :
        air' = [op |-> "get_time_on_air_us", len |-> payload_len,
                val |-> get_time_on_air_us(cfg, payload_len)]
    /\ UNCHANGED <<cfg, msc_vars, lora_vars>>

\* the modem after configure()
AirInit == cfg \in Configs /\ air = NoAir

\* the modem as constructed
AirIdle == cfg = DefaultCfg /\ air = NoAir

AirNext ==
    \/ GetNSymbolsX4
    \/ GetTimeOnAirUs

(***************************************************************************)
(* Initial states and specifications                                       *)
(***************************************************************************)

MscInit ==
    /\ open = FALSE
    /\ stage = None
    /\ transferred_length = PyInt(0)
    /\ rx_data = Zeros(CbwLen)
    /\ cbw = CBW_init
    /\ csw = CSW_init
    /\ data = NoData
    /\ stall_in = FALSE
    /\ stall_out = FALSE
    /\ filesystem \in Filesystems
    /\ sense = None
    /\ sense_key = "unset"
    /\ long_operation = NoLongOp
    /\ out_pending = <<>>
    /\ in_pending = <<>>
    /\ sched = <<>>
    /\ timer = FALSE
    /\ descriptors = FALSE
    /\ resets = 0
    /\ obs = NoObs

MscNoResetNext ==
    \/ get_endpoint_descriptors
    \/ DeviceOpen
    \/ RunTryToPrepareCbw
    \/ TimerFire
    \/ GetMaxLun
    \/ OutComplete
    \/ InComplete
    \/ RunProcReceiveCbw
    \/ RunProcTransferData
    \/ RunSendCsw
    \/ RunPrepareCbw

MscNext ==
    \/ MscNoResetNext
    \/ ResetRequest
    \/ EndpointControl

vars == <<msc_vars, lora_vars, air_vars>>

\* the modem as constructed, with its IRQ line wired
LoraIdle == LoraInit /\ ~rx_crc_error

\* the mass-storage interface as constructed, over a device without filesystem
MscIdle == MscInit /\ filesystem = "None"

\* the initial states of the mass-storage runs: the modem stays idle
MscRunInit == MscInit /\ LoraIdle /\ AirIdle

\* the initial states of the modem runs: the mass-storage interface stays idle
LoraRunInit == MscIdle /\ LoraInit /\ AirIdle

\* the initial states of the time-on-air queries: every setting, over an idle
\* modem and an idle mass-storage interface
AirRunInit == MscIdle /\ LoraIdle /\ AirInit

\* any interleaving of host requests, completions and deferred handlers
MscSpec == MscRunInit /\ [][MscNext]_vars

\* any interleaving of modem calls, radio events and clock ticks
LoraSpec == LoraRunInit /\ [][LoraNext]_vars

\* the same, the irq callback set and removed at any time
LoraCallbackSpec == LoraRunInit /\ [][LoraCallbackNext]_vars

\* any sequence of time-on-air queries under any setting
AirSpec == AirRunInit /\ [][AirNext]_vars

\* the handlers MicroPython's scheduler runs, oldest first
Scheduler ==
    \/ RunTryToPrepareCbw
    \/ RunProcReceiveCbw
    \/ RunProcTransferData
    \/ RunSendCsw
    \/ RunPrepareCbw

\* the host issues neither a Reset request nor a control request to a bulk
\* endpoint; every scheduled handler runs,
\* every submitted transfer completes unless its endpoint is stalled, and
\* the armed timer fires
MscNoResetSpec ==
    /\ MscRunInit
    /\ [][MscNoResetNext]_vars
    /\ WF_vars(Scheduler)
    /\ WF_vars(InComplete)
    /\ WF_vars(OutComplete)
    /\ WF_vars(TimerFire)

(***************************************************************************)
(* Properties of the mass-storage transport                                *)
(***************************************************************************)

\* a CBW completion was just handled by proc_receive_cbw_callback in CMD
CbwHandled == obs.ev = "proc_receive_cbw_callback" /\ obs.from = MSC_STAGE_CMD /\ ~obs.drop

\* the CBW just decoded fails a meaningfulness check
NotMeaningful ==
    \/ cbw.bCBWLUN > 15
    \/ ~(0 < cbw.bCBWCBLength /\ cbw.bCBWCBLength < 17)
    \/ cbw.bCBWLUN # 0

\* the CSW of the current command has been submitted
CswSubmitted == obs.csws = 1

\* the residue the host reads in the submitted CSW
CswResidue == CSW_decode(obs.csw_frame).dCSWDataResidue

\* a CSW transfer is outstanding on the IN endpoint
CswPending == \E i \in 1..Len(in_pending) : in_pending[i].cb = "send_csw_callback"

\* the OUT transfer for the next CBW is armed with the current rx_data buffer
CbwArmed == out_pending # <<>> /\ out_pending[Len(out_pending)] /\ Len(rx_data) = CbwLen

\* C2 as stated: once a CBW with a wrong signature, or of a length other
\* than 31 bytes, has been handled in CMD, both bulk endpoints are stalled
\* and the stage is NEED_RESET.
C2_BadCbwStallsNeedReset ==
    (CbwHandled /\ (obs.n # 31 \/ cbw.dCBWSignature # PyInt(CBW_SIGNATURE)))
        => (stall_in /\ stall_out /\ stage = MSC_STAGE_NEED_RESET)

\* C3 as stated: when the CSW of a command accepted into DATA is
\* submitted, the bytes submitted on IN before it number
\* min(data_len, dCBWDataTransferLength).
C3_TotalIsMin ==
    (obs.acc /\ CswSubmitted)
        => PyInt(obs.resp + obs.pad)
             = IF PyLess(cbw.dCBWDataTransferLength, PyInt(obs.d))
               THEN cbw.dCBWDataTransferLength ELSE PyInt(obs.d)

\* C3 amended: with no Reset request and no long operation pending during
\* the command, the bytes submitted on IN before the CSW number exactly
\* dCBWDataTransferLength: the data_len response bytes followed by zero
\* padding when 0 < data_len <= dCBWDataTransferLength, zero bytes only
\* when the handler failed, returned nothing or returned too much.
C3_TotalIsTransferLength ==
    (obs.acc /\ CswSubmitted /\ ~obs.lop)
        => /\ PyInt(obs.resp + obs.pad) = cbw.dCBWDataTransferLength
           /\ obs.resp = IF obs.out = "data" THEN obs.d ELSE 0

\* C3 witness: a response shorter than the host asked for was padded
C3_Witness ==
    /\ obs.acc /\ CswSubmitted /\ ~obs.lop
    /\ obs.out = "data"
    /\ obs.resp = obs.d /\ PyLess(PyInt(obs.d), cbw.dCBWDataTransferLength)
    /\ PyInt(obs.pad) = PySub(cbw.dCBWDataTransferLength, PyInt(obs.d))

\* C4 as stated: the residue of the submitted CSW is
\* dCBWDataTransferLength minus transferred_length at that moment.
C4_ResidueFromTransferred ==
    (obs.acc /\ CswSubmitted)
        => csw.dCSWDataResidue = PySub(cbw.dCBWDataTransferLength, obs.csw_tl)

\* C4 amended: with no Reset request, the residue of the submitted CSW is
\* dCBWDataTransferLength minus the response bytes submitted on IN; the
\* zero padding, which transferred_length counts, is not subtracted.  The
\* frame carries the low 32 bits of that number.
C4_ResidueFromResponse ==
    (obs.acc /\ CswSubmitted)
        => /\ csw.dCSWDataResidue
                = PySub(cbw.dCBWDataTransferLength, PyInt(obs.resp))
           /\ CswResidue = UnLE32(LE32(csw.dCSWDataResidue), 1)

\* C4 witness: a padded response, reported with a non-zero residue while
\* transferred_length has reached the whole transfer length
C4_Witness ==
    /\ obs.acc /\ CswSubmitted
    /\ obs.resp > 0 /\ obs.pad > 0
    /\ CswResidue = PyInt(obs.pad)
    /\ obs.csw_tl = cbw.dCBWDataTransferLength

\* C6 as stated: a CBW of 31 bytes with the right signature that fails a
\* meaningfulness check gets a CSW with status FAILED prepared, and
\* neither endpoint is stalled.
C6_NotMeaningfulFailed ==
    (CbwHandled /\ obs.n = 31 /\ cbw.dCBWSignature = PyInt(CBW_SIGNATURE) /\ NotMeaningful)
        => (~stall_in /\ ~stall_out /\ stage = MSC_STAGE_STATUS
            /\ csw.bCSWStatus = STATUS_FAILED)

\* C7 as stated: without Reset requests and under fairness, every CBW that
\* passes validation is followed by exactly one CSW, carrying its tag and
\* submitted with no data transfer outstanding, and every submitted CSW is
\* followed by the stage CMD with the next CBW transfer armed.
C7_OneCswPerCbw ==
    /\ [](/\ obs.csws <= 1
          /\ CswSubmitted
               => (obs.valid /\ CSW_decode(obs.csw_frame).dCSWTag = cbw.dCBWTag)
          /\ CswPending => Len(in_pending) = 1)
    /\ (obs.valid ~> CswSubmitted)
    /\ (CswPending ~> (stage = MSC_STAGE_CMD /\ CbwArmed))

\* C8 as stated: from the handling of a CBW with a wrong signature until
\* the next Reset request, both endpoints stay stalled and no transfer
\* (data, CSW or CBW) is submitted.
C8_QuietUntilReset ==
    obs.wait => (stall_in /\ stall_out /\ obs.subs = 0)

\* C9: right after a Reset request, whatever the state before, neither
\* bulk endpoint is stalled, transferred_length is 0, the storage reset has
\* run, the stage is CMD and a CBW OUT transfer is armed on a fresh 31-byte
\* buffer.
C9_ResetRecovers ==
    obs.ev = "reset"
        => (/\ ~stall_in /\ ~stall_out
            /\ transferred_length = PyInt(0)
            /\ sense_key = "None"
            /\ stage = MSC_STAGE_CMD
            /\ CbwArmed /\ rx_data = Zeros(CbwLen))

\* C9 witness: a Reset request that found both endpoints stalled by a
\* CBW with a wrong signature
C9_Witness ==
    /\ obs.ev = "reset"
    /\ obs.out = "BadCbw" /\ obs.bad = "signature"
    /\ ~stall_in /\ ~stall_out /\ CbwArmed

\* the edges of the transition table (None is the state before the first
\* prepare_cbw)
TableEdges ==
    { <<None, MSC_STAGE_CMD>>,
      <<MSC_STAGE_CMD, MSC_STAGE_DATA>>,
      <<MSC_STAGE_CMD, MSC_STAGE_STATUS>>,
      <<MSC_STAGE_CMD, MSC_STAGE_NEED_RESET>>,
      <<MSC_STAGE_DATA, MSC_STAGE_STATUS>>,
      <<MSC_STAGE_STATUS, MSC_STAGE_STATUS_SENT>>,
      <<MSC_STAGE_STATUS_SENT, MSC_STAGE_CMD>> }

\* C10 as stated: every action leaves the stage as it was, moves it along
\* an edge of the table, or is a Reset request ending in CMD; and a CSW is
\* only ever submitted from the stage STATUS.
C10_TableEdgesOnly ==
    /\ \/ stage = obs.from
       \/ <<obs.from, stage>> \in TableEdges
       \/ (obs.ev = "reset" /\ stage = MSC_STAGE_CMD)
    /\ obs.csw_stage \in {None, MSC_STAGE_STATUS}

\* the opcode of the CBW just decoded, and the status the host reads in the
\* submitted CSW
Opcode == cbw.CBWCB[1]
CswStatus == CSW_decode(obs.csw_frame).bCSWStatus

\* C23: TEST_UNIT_READY accepted while there is no backing store sets the
\* sense to MEDIUM_NOT_PRESENT and ends with a CSW of status FAILED; a
\* REQUEST_SENSE (asking for its 18 bytes or more) that finds this sense
\* answers key 0x02, ASC 0x3A, ASCQ 0x00 and ends with a CSW of status PASSED.
C23_MediumNotPresent ==
    /\ (CbwHandled /\ obs.acc /\ Opcode = 0 /\ filesystem = "None")
          => /\ obs.out = "StorageError"
             /\ sense = MEDIUM_NOT_PRESENT
             /\ stage = MSC_STAGE_STATUS /\ csw.bCSWStatus = STATUS_FAILED
    /\ (CswSubmitted /\ obs.acc /\ Opcode = 0 /\ filesystem = "None")
          => CswStatus = STATUS_FAILED
    /\ (CbwHandled /\ obs.acc /\ Opcode = 3 /\ sense = MEDIUM_NOT_PRESENT
          /\ ~PyLess(cbw.dCBWDataTransferLength, PyInt(18)))
          => /\ obs.out = "data" /\ obs.d = 18
             /\ data.body = <<"sense", 2, 58, 0>>
    /\ (CswSubmitted /\ obs.acc /\ Opcode = 3 /\ sense = MEDIUM_NOT_PRESENT
          /\ ~PyLess(cbw.dCBWDataTransferLength, PyInt(18)))
          => (CswStatus = STATUS_PASSED /\ obs.resp = 18)

\* the CSW of a REQUEST_SENSE that followed a TEST_UNIT_READY without medium
C23_Witness ==
    /\ CswSubmitted /\ obs.acc /\ Opcode = 3
    /\ filesystem = "None" /\ sense = MEDIUM_NOT_PRESENT
    /\ obs.resp = 18
    /\ CswStatus = STATUS_PASSED

\* opcodes without a handler: the four listed by name only, and some that
\* are not listed
NoHandlerOpcodes == {21, 27, 30, 42, 1, 171, 255}

\* C24: a CBW that passes the CBW checks with an opcode that has no handler
\* (not listed, or listed by name only: 0x2A, 0x1B, 0x1E, 0x15) runs no
\* handler, sets the sense to INVALID_COMMAND, takes the transport from CMD
\* to STATUS with status FAILED and stalls no endpoint; its CSW carries
\* FAILED; a REQUEST_SENSE (asking for its 18 bytes or more) that finds this
\* sense answers key 0x05, ASC 0x20, ASCQ 0x00 with a CSW of status PASSED.
C24_InvalidCommand ==
    /\ \A op \in NoHandlerOpcodes :
          /\ ~validate_cmd(M, Cdb6(op)).ok
          /\ validate_cmd(M, Cdb6(op)).s.sense = INVALID_COMMAND
    /\ (CbwHandled /\ obs.valid /\ Opcode \notin scsi_handlers)
          => /\ obs.out = "invalid" /\ ~obs.acc
             /\ sense = INVALID_COMMAND
             /\ stage = MSC_STAGE_STATUS /\ csw.bCSWStatus = STATUS_FAILED
             /\ ~stall_in /\ ~stall_out
    /\ (CswSubmitted /\ obs.out = "invalid" /\ Opcode \notin scsi_handlers)
          => CswStatus = STATUS_FAILED
    /\ (CbwHandled /\ obs.acc /\ Opcode = 3 /\ sense = INVALID_COMMAND
          /\ ~PyLess(cbw.dCBWDataTransferLength, PyInt(18)))
          => /\ obs.out = "data" /\ obs.d = 18
             /\ data.body = <<"sense", 5, 32, 0>>
    /\ (CswSubmitted /\ obs.acc /\ Opcode = 3 /\ sense = INVALID_COMMAND
          /\ ~PyLess(cbw.dCBWDataTransferLength, PyInt(18)))
          => CswStatus = STATUS_PASSED

\* the CSW of a REQUEST_SENSE that followed a WRITE_10 (0x2A)
C24_Witness ==
    /\ CswSubmitted /\ obs.acc /\ Opcode = 3
    /\ sense = INVALID_COMMAND
    /\ obs.resp = 18
    /\ CswStatus = STATUS_PASSED

\* the handler of the current command raised (handle_cmd raised StorageError)
HandlerRaised == obs.acc /\ obs.out = "StorageError"

\* C25: when the handler of a command raises, the transport leaves DATA for
\* STATUS with status FAILED, submits no command data, then sends a CSW with
\* status FAILED and comes back to CMD with the next CBW transfer armed
\* (without Reset requests, under fairness).
C25_HandlerErrorFails ==
    /\ []((CbwHandled /\ HandlerRaised)
             => (stage = MSC_STAGE_STATUS /\ csw.bCSWStatus = STATUS_FAILED
                 /\ obs.resp = 0))
    /\ []((CswSubmitted /\ HandlerRaised) => (CswStatus = STATUS_FAILED /\ obs.resp = 0))
    /\ ((CbwHandled /\ HandlerRaised) ~> (CswSubmitted /\ HandlerRaised))
    /\ ((CswPending /\ HandlerRaised) ~> (stage = MSC_STAGE_CMD /\ CbwArmed))

\* the current command ended with no data to send: it failed validation,
\* its handler raised, returned None, nothing, or more than was asked for
NoDataEnd ==
    obs.valid /\ obs.out \in {"invalid", "StorageError", "None", "too_long", "empty"}

\* a padding transfer is outstanding on the IN endpoint
PaddingPending == \E i \in 1..Len(in_pending) : in_pending[i].cb = "padding_sent"

\* C26: a command that ends with no data is followed by one padding
\* transfer of dCBWDataTransferLength zero bytes (none when it is 0) and,
\* after that transfer has completed, by one CSW whose residue is
\* dCBWDataTransferLength (without Reset requests, under fairness).
C26_PaddingThenCsw ==
    /\ []((CswSubmitted /\ NoDataEnd)
             => /\ obs.resp = 0
                /\ PyInt(obs.pad) = cbw.dCBWDataTransferLength
                /\ CswResidue = cbw.dCBWDataTransferLength)
    /\ [](PaddingPending
             => /\ ~CswPending /\ obs.csws = 0
                /\ Len(in_pending) = 1
                /\ PyInt(in_pending[1].len) = cbw.dCBWDataTransferLength
                /\ PyLess(PyInt(0), cbw.dCBWDataTransferLength))
    /\ ((CbwHandled /\ NoDataEnd) ~> (CswSubmitted /\ NoDataEnd))

\* the handler answered the current command in one call with fewer bytes
\* than dCBWDataTransferLength (an unsigned 32-bit number)
ShortResponse ==
    /\ obs.acc /\ obs.out = "data" /\ ~obs.lop
    /\ 0 < obs.d
    /\ PyLess(PyInt(obs.d), cbw.dCBWDataTransferLength)

\* C27: a response of d bytes, 0 < d < dCBWDataTransferLength, is sent
\* followed by zero bytes up to dCBWDataTransferLength, and then a CSW with
\* residue dCBWDataTransferLength - d and status PASSED (without Reset
\* requests, under fairness).
C27_ShortfallReported ==
    /\ []((CswSubmitted /\ ShortResponse)
             => /\ obs.resp = obs.d
                /\ PyInt(obs.pad) = PySub(cbw.dCBWDataTransferLength, PyInt(obs.d))
                /\ CswResidue = PySub(cbw.dCBWDataTransferLength, PyInt(obs.d))
                /\ CswStatus = STATUS_PASSED)
    /\ ((CbwHandled /\ ShortResponse) ~> (CswSubmitted /\ ShortResponse))

\* the LBA and the block count of the READ(10) in the current CBW
Read10Lba == UnBE32(cbw.CBWCB, 3)
Read10Len == UnBE16(cbw.CBWCB, 8)

\* the current command is a READ(10) of n >= 1 blocks on a block device; the
\* CBW may declare a CDB longer than the 10 bytes handle_read10 unpacks
BlockRead ==
    /\ obs.acc
    /\ Opcode = 40 /\ cbw.bCBWCBLength >= 10
    /\ filesystem = "blockdev"
    /\ Read10Len >= 1

\* C28 as stated: a READ(10) of n blocks from lba on a block device, under
\* any memory budgets >= 1 (without Reset requests, under fairness): every
\* chunk holds at most the budget of its call; the chunks are consecutive
\* from lba, so that the blocks submitted are always lba .. current_lba - 1
\* and the blocks left are current_lba .. lba + n - 1; the continuation runs
\* only in proc_transfer_data, once every byte submitted has completed; it is
\* cleared with the last chunk; the CSW then sent has status PASSED; and
\* the CSW is always reached.
C28_ChunkedRead ==
    /\ [](\A lba \in 0..1 : \A n \in 1..3 : \A m \in 1..MaxBudget :
            LET r == read10_blocks(M, PyInt(lba), n, m)
            IN  /\ r.body = <<"blocks", PyInt(lba), Min(n, m)>>
                /\ r.len = Min(n, m) * block_size
                /\ r.s.long_operation.active = (n > m)
                /\ n > m => /\ r.s.long_operation.current_lba = PyInt(lba + m)
                            /\ r.s.long_operation.remaining_length = n - m)
    /\ []((BlockRead /\ long_operation.active)
             => /\ long_operation.remaining_length >= 1
                /\ PyAdd(long_operation.current_lba,
                         PyInt(long_operation.remaining_length))
                     = PyAdd(Read10Lba, PyInt(Read10Len))
                /\ PyInt(obs.resp)
                     = PyMul(PySub(long_operation.current_lba, Read10Lba), block_size))
    /\ []((BlockRead /\ ~long_operation.active) => obs.resp = Read10Len * block_size)
    /\ []((BlockRead /\ in_pending # <<>> /\ in_pending[1].cb = "transfer_data")
             => /\ Len(in_pending) = 1
                /\ in_pending[1].body[1] = "blocks"
                /\ in_pending[1].body[3] \in 1..MaxBudget
                /\ in_pending[1].pad = 0
                /\ PyAdd(in_pending[1].body[2], PyInt(in_pending[1].body[3]))
                     = IF long_operation.active THEN long_operation.current_lba
                       ELSE PyAdd(Read10Lba, PyInt(Read10Len)))
    /\ [][(BlockRead /\ long_operation.active /\ long_operation' # long_operation)
             => /\ obs'.ev = "proc_transfer_data"
                /\ in_pending = <<>>
                /\ transferred_length' = PyInt(obs.resp)
                /\ Len(in_pending') = 1
                /\ in_pending'[1].body[2] = long_operation.current_lba]_vars
    /\ []((BlockRead /\ CswSubmitted)
             => /\ ~long_operation.active
                /\ CswStatus = STATUS_PASSED)
    /\ ((CbwHandled /\ BlockRead) ~> (CswSubmitted /\ BlockRead))

\* C29 as stated: when the completion of a CBW of 31 bytes with the right
\* signature is processed while the stage is not CMD, a CSW with status
\* PHASE_ERROR is prepared (stage STATUS) and neither endpoint is stalled
\* by it.
C29_PhaseErrorCsw ==
    (/\ obs.ev = "proc_receive_cbw_callback" /\ obs.from # MSC_STAGE_CMD
     /\ obs.n = 31 /\ CBW_from_binary(rx_data).dCBWSignature = PyInt(CBW_SIGNATURE))
        => /\ stage = MSC_STAGE_STATUS
           /\ csw.bCSWStatus = STATUS_PHASE_ERROR

\* C30 as stated: the sense state is always one of NoSense,
\* MediumNotPresent and InvalidCommand, and a REQUEST SENSE handled in CMD
\* is answered with the 18 bytes carrying the triple of the current sense
\* state, its CSW being prepared with status PASSED.
C30_SenseAlwaysValid ==
    /\ sense \in {NO_SENSE, MEDIUM_NOT_PRESENT, INVALID_COMMAND}
    /\ (CbwHandled /\ obs.acc /\ Opcode = 3)
          => /\ obs.out \in {"data", "too_long"}
             /\ obs.d = 18
             /\ obs.out = "data" => /\ data.body = <<"sense">> \o sense_values(sense)
                                    /\ csw.bCSWStatus = STATUS_PASSED

\* C33: validate_cmd sets the sense to NoSense for every opcode with a
\* handler other than REQUEST SENSE and leaves it alone for REQUEST SENSE;
\* an accepted command other than REQUEST SENSE leaves NoSense unless its
\* handler raised; a REQUEST SENSE leaves the sense as it found it and, when
\* it answers, reports the triple of that sense state, so that a second
\* REQUEST SENSE reports the same triple.
C33_SenseFrame ==
    /\ [](\A op \in scsi_handlers :
            LET v == validate_cmd(M, Cdb6(op))
            IN  /\ v.ok
                /\ v.s.sense = IF op = 3 THEN sense ELSE NO_SENSE)
    /\ [](handle_request_sense(M, Cdb6(3)).s.sense = sense)
    /\ []((CbwHandled /\ obs.acc /\ Opcode # 3)
             => /\ sense \in {NO_SENSE, MEDIUM_NOT_PRESENT, INVALID_COMMAND}
                /\ obs.out # "StorageError" => sense = NO_SENSE)
    /\ [][(CbwHandled' /\ obs'.acc /\ Opcode' = 3)
             => /\ sense' = sense
                /\ obs'.out = "data"
                     => data'.body = <<"sense">> \o sense_values(sense)]_vars

\* C33 witness: a REQUEST SENSE answered with the MediumNotPresent triple
\* while the sense state stays MediumNotPresent for the next one
C33_Witness ==
    /\ CbwHandled /\ obs.acc /\ Opcode = 3 /\ obs.out = "data"
    /\ sense = MEDIUM_NOT_PRESENT
    /\ data.body = <<"sense", 2, 58, 0>>

\* proc_transfer_data calls the long-operation continuation in this step:
\* it runs in DATA, the completion leaves self.data empty and a long
\* operation is pending
ContinuationRuns ==
    /\ obs'.ev = "proc_transfer_data"
    /\ stage = MSC_STAGE_DATA
    /\ sched # <<>>
    /\ DataLen(DataAfter(data, Head(sched).x)) = 0
    /\ long_operation.active

\* C34 as stated: a Reset request leaves no long operation pending, and the
\* continuation of a READ(10) is only ever called during the DATA phase of
\* that READ(10), never during a later command.
C34_ResetClearsContinuation ==
    /\ [](obs.ev = "reset" => ~long_operation.active)
    /\ [][ContinuationRuns => (obs.acc /\ Opcode = 40)]_vars

\* C35 as stated: transferred_length is 0 when a CBW has been accepted
\* into the DATA phase, and a scheduled proc_transfer_data that runs while
\* the stage is not DATA changes no state of the transport.
C35_StaleCompletionIgnored ==
    /\ []((CbwHandled /\ obs.acc) => transferred_length = PyInt(0))
    /\ [][(obs'.ev = "proc_transfer_data" /\ stage # MSC_STAGE_DATA)
             => UNCHANGED <<stage, transferred_length, data, cbw, csw,
                            in_pending, out_pending, long_operation>>]_vars

\* C36 as stated: at most one CBW OUT transfer is outstanding, and every
\* outstanding one was submitted with the buffer that will be decoded when
\* it completes (the current rx_data).
C36_OneCbwTransfer ==
    /\ Len(out_pending) <= 1
    /\ \A i \in 1..Len(out_pending) : out_pending[i]

(***************************************************************************)
(* Properties of the LoRa modem                                            *)
(***************************************************************************)

\* C1: poll_send returns the completion timestamp exactly once per send, on
\* the first call that reads the TX-complete flag while a send is in
\* progress (a call that finds the flag set on entry always reads it): that
\* call clears tx, so every later call returns False until a new send
\* starts; a call during a send that does not read the flag returns True
\* and leaves the send in progress; whatever events fall between the calls
\* or inside them.
C1_PollSendOnce ==
    /\ [](lobs.stamps <= 1 /\ (lobs.stamps = 1 => ~tx))
    /\ [][lobs'.ev = "poll_send" =>
            /\ ~tx => lobs'.ret = "False"
            /\ tx => lobs'.ret \in {"ticks", "True"}
            /\ (tx /\ "tx_done" \in flags) => lobs'.ret = "ticks"
            /\ lobs'.ret = "ticks" <=> (tx /\ lobs'.txflag)
            /\ lobs'.ret = "ticks" =>
                  /\ ~tx'
                  /\ lobs'.stamps = lobs.stamps + 1
                  /\ lobs'.val \in 0..(TicksPeriod - 1)
            /\ lobs'.ret = "True" => (tx' /\ "tx_done" \notin flags)]_vars

\* a poll_send after the completion was reported, with a receive pending
C1_Witness ==
    /\ lobs.ev = "poll_send"
    /\ lobs.stamps = 1
    /\ lobs.ret = "False"
    /\ rx # RxFalse

\* C5: _check_recv called with a receive deadline that has passed always
\* ends the receive (rx False, antenna idle) and never calls start_recv
\* again, whatever is_idle() reports.
C5_ExpiredEndsReceive ==
    (lobs.chk /\ IsInt(lobs.chk_rx) /\ ticks_diff(lobs.chk_rx, now) <= 0)
        => (rx = RxFalse /\ ant_sw = "idle" /\ ~lobs.rearm)

(***************************************************************************)
(* Properties of the time-on-air calculator                                *)
(***************************************************************************)

\* the least k with k * b >= a, for a >= 0 and b > 0
Ceil(a, b) == CHOOSE k \in 0..a : k * b >= a /\ (k = 0 \/ (k - 1) * b < a)

\* the symbol time of the formula: 1000000 * 2^sf / bw_hz, with the factor 8
\* every bandwidth has taken out of both terms
FormulaTSym == (125000 * 2 ^ cfg.sf) \div (cfg.bw_hz \div 8)

\* the symbol count (times 4) of the formula for the payload last asked about
FormulaNSymbolsX4 ==
    LET crc == IF cfg.crc_en THEN 1 ELSE 0
        explicit == IF cfg.implicit_header THEN 0 ELSE 1
        ldr == IF FormulaTSym >= 16000 THEN 1 ELSE 0
        s_o == symbol_offsets(cfg)[1]
        b_o == symbol_offsets(cfg)[2]
        raw == 8 * air.len + 16 * crc - 4 * cfg.sf + 8 + b_o + 20 * explicit
        bits == IF raw > 0 THEN raw ELSE 0
        bps == 4 * (cfg.sf - 2 * ldr)
    IN 17 + 4 * (cfg.preamble_len + s_o + 8 + Ceil(bits, bps) * cfg.coding_rate)

\* SF=8, BW=125 kHz, CR=5, preamble=12, CRC on, explicit header
Sf8Example ==
    /\ cfg.sf = 8 /\ cfg.bw_hz = 125000 /\ cfg.coding_rate = 5
    /\ cfg.preamble_len = 12 /\ cfg.crc_en /\ ~cfg.implicit_header

\* SX126x, SF=5, BW=500 kHz, CR=8, preamble=12, CRC on, explicit header
Sf5Example ==
    /\ cfg.chip = "sx126x"
    /\ cfg.sf = 5 /\ cfg.bw_hz = 500000 /\ cfg.coding_rate = 8
    /\ cfg.preamble_len = 12 /\ cfg.crc_en /\ ~cfg.implicit_header

\* C11: for every setting and payload length, get_n_symbols_x4 returns the
\* symbol count of the formula and get_time_on_air_us returns
\* t_sym_us * n_symbols_x4 / 4; in the SF=8 example with 16 bytes these are
\* 197 and 100864 microseconds, with a symbol time of 2048.
C11_TimeOnAirFormula ==
    /\ air.op = "get_n_symbols_x4" => air.val = FormulaNSymbolsX4
    /\ air.op = "get_time_on_air_us" => air.val = (FormulaTSym * FormulaNSymbolsX4) \div 4
    /\ (Sf8Example /\ air.len = 16) =>
        /\ FormulaTSym = 2048 /\ get_t_sym_us(cfg) = 2048
        /\ air.op = "get_n_symbols_x4" => air.val = 197
        /\ air.op = "get_time_on_air_us" => air.val = 100864

\* C11 witness: the time on air of 16 bytes was asked in the SF=8 example
C11_Witness ==
    /\ Sf8Example /\ air.len = 16
    /\ air.op = "get_time_on_air_us" /\ air.val = 100864

\* C12 as stated: one more payload byte always takes strictly more time on
\* air.
C12_StrictlyIncreasing ==
    (air.op = "get_time_on_air_us" /\ air.len < MaxPayload)
        => get_time_on_air_us(cfg, air.len + 1) > air.val

\* C12 amended: one more payload byte never takes less time on air, and sf
\* more bytes always take strictly more.
C12_NonDecreasing ==
    air.op = "get_time_on_air_us" =>
        /\ air.len < MaxPayload => get_time_on_air_us(cfg, air.len + 1) >= air.val
        /\ air.len + cfg.sf <= MaxPayload
               => get_time_on_air_us(cfg, air.len + cfg.sf) > air.val

\* C12 witness: a payload length whose successor takes the same time on air,
\* and for which sf more bytes fit
C12_Witness ==
    /\ air.op = "get_time_on_air_us"
    /\ air.len + cfg.sf <= MaxPayload
    /\ get_time_on_air_us(cfg, air.len + 1) = air.val

\* C13 as stated: in the SF=5 example on the SX126x, get_n_symbols_x4 of a
\* 1-byte payload is 137.
C13_Sf5Returns137 ==
    (Sf5Example /\ air.op = "get_n_symbols_x4" /\ air.len = 1) => air.val = 137

\* C13 amended: it is 169: with the CRC on the payload bit length is 24,
\* which takes two symbols of 20 bits (137 is the count with the
\* CRC off).
C13_Sf5Returns169 ==
    /\ (Sf5Example /\ air.op = "get_n_symbols_x4" /\ air.len = 1) => air.val = 169
    /\ (air.op = "get_n_symbols_x4" /\ air.len = 1 /\ cfg.chip = "sx126x"
        /\ cfg.sf = 5 /\ cfg.bw_hz = 500000 /\ cfg.coding_rate = 8
        /\ cfg.preamble_len = 12 /\ ~cfg.crc_en /\ ~cfg.implicit_header)
            => air.val = 137

\* C13 witness: the symbol count of 1 byte was asked in the SF=5 example
C13_Witness ==
    /\ Sf5Example /\ air.len = 1
    /\ air.op = "get_n_symbols_x4" /\ air.val = 169

\* C14: a poll_recv that reaches _check_recv with a deadline treats the
\* receive as armed exactly while the signed difference between the deadline
\* and the clock is positive, whatever tick value the deadline is (0
\* included), and ends it once the difference is zero or negative (here with
\* the radio idle).
C14_DeadlineWrapSafe ==
    (lobs.ev = "poll_recv" /\ lobs.chk /\ IsInt(lobs.chk_rx)) =>
        IF ticks_diff(lobs.chk_rx, now) > 0
        THEN lobs.ret \in {"True", "packet"} /\ rx = lobs.chk_rx
        ELSE lobs.chk_idle => (rx = RxFalse /\ lobs.ret # "True")

\* C15: start_recv fails with an invalid-argument error exactly when it is
\* called with continuous true and a timeout that is not None, and the failed
\* call leaves rx, rx_continuous, rx_length, tx, last_irq, the antenna
\* switch and the radio's mode as they were.
C15_InvalidArgsNoChange ==
    [][lobs'.ev = "start_recv" =>
          /\ (lobs'.ret = "ValueError") <=> (lobs'.a_c /\ lobs'.a_t # None)
          /\ lobs'.ret = "ValueError" =>
                UNCHANGED <<rx, rx_continuous, rx_length, tx, last_irq, ant_sw, mode>>]_vars

\* a rejected start_recv while a timed receive is armed and a send is in
\* flight
C15_Witness ==
    /\ lobs.ev = "start_recv"
    /\ lobs.ret = "ValueError"
    /\ lobs.a_t = 1
    /\ IsInt(rx) /\ ~rx_continuous /\ rx_length = 255
    /\ tx

\* C16: a poll_recv that observes an RX-complete flag of a receive that was
\* not valid adds exactly one to crc_errors and returns the packet if and
\* only if rx_crc_error is set; no other step changes crc_errors, which
\* never decreases.
C16_CrcErrorsCounted ==
    [][/\ crc_errors' >= crc_errors
       /\ IF lobs'.ev = "poll_recv" /\ rx # RxFalse /\ ~tx /\ PendingInvalid
          THEN /\ crc_errors' = crc_errors + 1
               /\ (lobs'.ret = "packet") <=> rx_crc_error
          ELSE crc_errors' = crc_errors]_vars

\* C17: receive timeouts are enforced in software: a poll_recv that reaches
\* _check_recv at or after the deadline (a deadline other than tick 0, no
\* packet read by the call) ends the receive (rx False) and reports it idle,
\* whether or not the radio has left receive mode by itself.
C17_SoftwareTimeout ==
    (/\ lobs.ev = "poll_recv" /\ lobs.chk /\ ~lobs.packet
     /\ IsInt(lobs.chk_rx) /\ lobs.chk_rx # 0
     /\ ticks_diff(lobs.chk_rx, now) <= 0)
        => (rx = RxFalse /\ lobs.ret = "False")

ModemCalls ==
    {"start_recv", "poll_recv", "poll_send", "start_send", "standby", "set_irq_callback"}

\* C18: standby() leaves rx False, tx false and the antenna switch idle, and
\* runs the ISR exactly once as a soft ISR (the callback, when one is set, is
\* called once with pin None); hardware and timer events change neither rx
\* nor tx, a poll_recv that finds rx False returns False and a poll_send that
\* finds tx false returns False: so do the next polls after standby(),
\* whatever events interleave.
C18_StandbyResets ==
    /\ [](lobs.ev = "standby" =>
             /\ rx = RxFalse /\ ~tx /\ ant_sw = "idle" /\ mode = "standby"
             /\ lobs.isr = 1
             /\ lobs.cb = IF irq_callback THEN 1 ELSE 0)
    /\ [][/\ lobs'.ev \notin ModemCalls => (rx' = rx /\ tx' = tx)
          /\ (lobs'.ev = "poll_recv" /\ rx = RxFalse) => lobs'.ret = "False"
          /\ (lobs'.ev = "poll_send" /\ ~tx) => lobs'.ret = "False"]_vars

\* standby() with a callback set, called with a receive pending behind a send
C18_Witness ==
    /\ lobs.ev = "standby"
    /\ lobs.tx0 /\ lobs.rx0 # RxFalse
    /\ lobs.cb = 1
    /\ rx = RxFalse /\ ~tx

\* C19 as stated: immediately after standby() returns, and immediately after
\* a start_recv that started the radio returns, last_irq is unset and
\* irq_triggered() is false.
C19_ClearedAfterCalls ==
    (\/ lobs.ev = "standby"
     \/ lobs.ev = "start_recv" /\ ~lobs.tx0 /\ lobs.ret # "ValueError")
        => (last_irq = None /\ ~irq_triggered(L))

\* C19, amended: immediately after standby() returns last_irq holds the tick
\* of the soft ISR that standby() runs after clearing it, and irq_triggered()
\* is true; and BaseModem.start_recv, with any arguments, leaves last_irq as
\* it finds it.
C19_SetAfterStandby ==
    /\ lobs.ev = "standby" => (last_irq = now /\ irq_triggered(L))
    /\ \A timeout_ms \in {None} \cup 0..MaxTimeout : \A continuous \in BOOLEAN :
          base_start_recv(L, timeout_ms, continuous, 255).last_irq = last_irq

\* standby() after the clock moved, called with a send in flight whose
\* completion interrupt came a tick before
C19_Witness ==
    /\ lobs.ev = "standby"
    /\ lobs.tx0
    /\ "tx_done" \in flags
    /\ now = 2
    /\ last_irq = 2

\* C20: a receive armed while a send is in flight resumes by itself: when
\* poll_send observes the TX completion (the radio idle) and the receive's
\* deadline has not expired, tx becomes false and start_recv is issued again
\* with the stored rx_continuous and rx_length, the antenna switched to RX
\* and the deadline kept; while tx is true poll_recv returns True (busy).
C20_ReceiveResumes ==
    /\ (/\ lobs.ev = "poll_send" /\ lobs.ret = "ticks" /\ lobs.chk_idle
        /\ lobs.rx0 # RxFalse
        /\ IsInt(lobs.rx0) => ticks_diff(lobs.rx0, now) > 0)
          => /\ ~tx
             /\ lobs.rearm
             /\ rx = lobs.rx0 /\ rx_length = 255
             /\ ant_sw = "rx"
             /\ mode = IF rx_continuous THEN "rx_cont"
                       ELSE IF IsInt(rx) THEN "rx_timed" ELSE "rx_single"
    /\ (lobs.ev = "poll_recv" /\ lobs.tx0 /\ lobs.rx0 # RxFalse)
          => (lobs.ret = "True" /\ tx /\ rx = lobs.rx0)

\* C21: whenever poll_recv reads a packet out of the radio (a valid receive,
\* or an invalid one with rx_crc_error set) it returns that packet, whatever
\* the length of the payload, the empty payload included.
C21_ReadPacketReturned ==
    (lobs.ev = "poll_recv" /\ lobs.packet) => lobs.ret = "packet"

\* C22: in every reachable state rx is not False if and only if the antenna
\* switch is in RX or a send is in flight on behalf of a receive that is
\* still armed: with tx false and rx not False the switch is in RX, and with
\* rx False the switch is not in RX.
C22_AntennaFollowsRx ==
    /\ (rx # RxFalse /\ ~tx) => ant_sw = "rx"
    /\ rx = RxFalse => ant_sw # "rx"

\* C31: the deadline of an armed receive never changes: no step other than a
\* start_recv call by the application changes rx except to end the receive
\* (rx False); when _check_recv re-issues start_recv (from poll_recv or from
\* poll_send) rx is left as it was, although the re-issued start_recv reads
\* the clock again, and the timeout it passes is the remaining time
\* ticks_diff(deadline, tick read by _check_recv), which is positive (None
\* when there is no deadline); whatever events fall inside the call.
C31_DeadlineKept ==
    /\ [][lobs'.ev # "start_recv" => (rx' = rx \/ rx' = RxFalse)]_vars
    /\ [][lobs'.rearm =>
             /\ lobs'.ev \in {"poll_recv", "poll_send"}
             /\ rx' = rx
             /\ IF IsInt(rx)
                THEN /\ \E k \in 0..MaxInside : lobs'.chk_now = ticks_add(now, k)
                     /\ lobs'.rearm_t = ticks_diff(rx, lobs'.chk_now)
                     /\ lobs'.rearm_t > 0
                ELSE lobs'.rearm_t = None]_vars

\* C31 witness: a receive with a deadline resumed by poll_send's _check_recv
\* with the deadline kept
C31_Witness ==
    /\ lobs.ev = "poll_send" /\ lobs.rearm
    /\ IsInt(rx) /\ lobs.rearm_t = 1
    /\ rx = lobs.rx0 /\ mode = "rx_timed"

\* poll_recv is about to see a completed receive (an RX-complete flag is
\* set) on a receive that is not continuous
SeesFinal ==
    /\ rx # RxFalse /\ ~tx
    /\ get_irq(L) \cap IRQ_RX_COMPLETE # {}
    /\ ~rx_continuous

\* C32 as stated: a poll_recv that sees an RX-complete flag on a receive
\* that is not continuous ends the receive: rx is False and the antenna
\* switch idle after the call.
C32_FinalEndsReceive ==
    [][(lobs'.ev = "poll_recv" /\ SeesFinal)
          => (rx' = RxFalse /\ ant_sw' = "idle")]_vars

\* C32 amended: such a poll_recv ends the receive when it reads the packet
\* out (the receive was valid, or rx_crc_error is set); when the completed
\* receive is invalid and rx_crc_error is not set it counts a CRC error,
\* reads nothing, does not end the receive itself and calls _check_recv,
\* which leaves rx and the antenna switch alone when the deadline is the
\* tick 0 or the radio is not idle, ends the receive (rx False, antenna
\* idle) when the radio is idle and the deadline has passed, and else
\* issues start_recv again: rx unchanged, antenna switch in RX.
C32_ReadEndsReceive ==
    [][(lobs'.ev = "poll_recv" /\ SeesFinal)
          => IF rx_flags_success(flags) \/ rx_crc_error
             THEN lobs'.packet /\ rx' = RxFalse /\ ant_sw' = "idle"
             ELSE /\ ~lobs'.packet
                  /\ crc_errors' = crc_errors + 1
                  /\ lobs'.chk
                  /\ IF Falsy(rx) \/ ~lobs'.chk_idle
                     THEN ~lobs'.rearm /\ rx' = rx /\ ant_sw' = ant_sw
                     ELSE IF IsInt(rx) /\ ticks_diff(rx, lobs'.chk_now) <= 0
                     THEN ~lobs'.rearm /\ rx' = RxFalse /\ ant_sw' = "idle"
                     ELSE lobs'.rearm /\ rx' = rx /\ ant_sw' = "rx"]_vars

\* C32 witness: a single receive left armed and resumed by the poll_recv
\* that saw it complete with a CRC error
C32_Witness ==
    /\ lobs.ev = "poll_recv" /\ lobs.chk /\ ~lobs.packet
    /\ crc_errors > 0 /\ ~rx_continuous
    /\ rx # RxFalse /\ lobs.rearm /\ ant_sw = "rx"

\* C37 as stated: a receive armed without a deadline (rx True) is ended
\* (rx False) only by standby() or, when it is not continuous, by the
\* poll_recv that delivers a packet to its caller.
C37_NoDeadlineNeverExpires ==
    [][(rx = RxTrue /\ rx' = RxFalse)
          => \/ lobs'.ev = "standby"
             \/ /\ lobs'.ev = "poll_recv" /\ ~rx_continuous
                /\ lobs'.ret = "packet"]_vars

====
